---- MODULE Spec2Model ----
(***************************************************************************)
(* Prefix-autocomplete subsystem of the quotation builder:                 *)
(*   Trie               (assets/js/state.js)                               *)
(*   ProductAutocomplete (assets/js/autocomplete.js)                       *)
(* A JavaScript string is modelled as a sequence of one-character strings. *)
(***************************************************************************)
EXTENDS Bags, FiniteSets, Integers, Sequences, TLC

\* ------------------------------------------------------------------------
\* Bounds of the model
\* ------------------------------------------------------------------------
MaxLen == 2          \* longest string the properties are evaluated on
MaxChanges == 2      \* vocabulary changes after construction
MaxCached == 1       \* entries the model lets a query add to Trie.cache
MaxCachedResults == 2    \* entries the model lets a query add to cachedResults
MaxBurst == 2        \* input events that arrive while a timer is pending
TrieDepth == 9       \* length of the product names of the large vocabulary

\* Characters of the strings: two letters in both cases.
Char == {"a", "b", "A", "B"}

StringsOver(alphabet, n) == UNION {[1..k -> alphabet] : k \in 0..n}

\* Every string the properties of search and startsWith are evaluated on.
AllStrings == StringsOver({"a", "b", "A"}, MaxLen)

\* Words given to insert: a word, a word it is a prefix of, the same in
\* another case, words on another branch, and the empty string.
InsertWords == {<<>>, <<"a">>, <<"b">>, <<"a", "b">>, <<"A", "b">>}

\* Strings given to search and to startsWith.
SearchWords == {<<"a">>, <<"a", "b">>, <<"b">>}

StartsWithPrefixes == {<<>>, <<"A">>, <<"b">>}

\* ------------------------------------------------------------------------
\* String.prototype.toLowerCase / toUpperCase
\* ------------------------------------------------------------------------
toLowerCaseChar(c) == CASE c = "A" -> "a" [] c = "B" -> "b" [] OTHER -> c

toUpperCaseChar(c) == CASE c = "a" -> "A" [] c = "b" -> "B" [] OTHER -> c

toLowerCase(s) == [i \in 1..Len(s) |-> toLowerCaseChar(s[i])]

\* a toUpperCase that leaves the string as it is
toUpperCaseKept(s) == s

toUpperCase(s) == [i \in 1..Len(s) |-> toUpperCaseChar(s[i])]

\* Array.prototype.slice(0, n) for n >= 0
slice(arr, n) == SubSeq(arr, 1, IF n < Len(arr) THEN n ELSE Len(arr))

\* ------------------------------------------------------------------------
\* TrieNode and the trie.  The trie is an arena: a function from the path
\* of a node (the characters on the edges from the root) to the node.
\* children lists the keys of the children object in own-property order,
\* which for letter keys is the order of creation.
\* ------------------------------------------------------------------------
null == <<"null">>

undefined == <<"undefined">>

TrieNode == [children |-> <<>>, isEndOfWord |-> FALSE, word |-> null,
             frequency |-> 0, popularity |-> 0]

hasChild(node, char) == \E i \in 1..Len(node.children) : node.children[i] = char

\* Number.POSITIVE_INFINITY as the default of maxWordLength
Infinity == 1000000

maxCacheSize == 1000

defaultLimit == 10

paMaxCacheSize == 100

VARIABLES
    root,           \* Trie.root: path -> TrieNode
    cache,          \* Trie.cache: Map in insertion order, <<[key, value], ...>>
    productList,    \* the module-level productList array
    options,        \* ProductAutocomplete.options
    cachedResults,  \* ProductAutocomplete.cachedResults: Map in insertion order
    inserted,       \* history: bag of the words given to Trie.insert
    nChanges,       \* history: vocabulary changes after construction
    filledWith,     \* history: the options each entry of Trie.cache was computed with
    lastCall,       \* history: the last call and what it returned
    thisTrie,       \* ProductAutocomplete.trie: "Trie", or "null" after destroy
    highlightRegexCache,    \* Map in insertion order: lower-cased input -> RegExp
    elements,       \* DOMElements.elements: the keys an element is cached under
    bound,          \* the listeners of initializeAutocomplete are registered
    inputValue,     \* input.value
    display,        \* suggestionsContainer.style.display
    items,          \* the .suggestion-item children of the container
    currentFocus,   \* ProductAutocomplete.currentFocus
    lastQuery,      \* ProductAutocomplete.lastQuery
    debounceTimer,  \* ProductAutocomplete.debounceTimer: {} for null, or {handle}
    timers,         \* the handles of setTimeout whose callback is still to run
    thrown,         \* history: a handler or a method has thrown
    burst,          \* history: the input events of the burst in progress or last
                    \* completed, the runs of handleInput since the last of
                    \* them, and whether input.value is still what it left
    lastEvent       \* history: the keydown of Enter or the click on an item,
                    \* when it is the event handled last, and the 'change'
                    \* events its handler dispatched on the input

VARIABLES
    quoteCounter,   \* QuoteState.quoteCounter
    products,       \* QuoteState.products
    client,         \* QuoteState.client.name
    form,           \* the values of the inputs client, product, quantity, price
    table,          \* the quote as rendered: client_name and the product rows
    quotes,         \* history: for each quote image generated, the file name
                    \* it was downloaded under and the file name logged for it
    lastSubmit,     \* history: the last click on 'add': whether validateForm
                    \* accepted the form, and what addProduct did then
    routes,         \* Router.routes: the paths in insertion order
    middlewares,    \* Router.middlewares
    routeHistory,   \* Router.routeHistory
    currentRoute,   \* Router.currentRoute
    currentParams,  \* Router.currentParams: <<[key, value], ...>>
    pathname,       \* window.location.pathname
    navigation,     \* the frame of the last navigate: its path, what
                    \* _matchRoute returned, the stack of _runMiddlewares and
                    \* the calls of next made and not yet run
    trace,          \* history of the last navigate: the middlewares run, the
                    \* calls of next each made, the runs of executeHandler,
                    \* and the router state when navigate was called
    navigated,      \* history: the route of every run of executeHandler
    nNavigate,      \* history: the calls of navigate made
    retry,          \* the frame of fetchWithRetry: retries, delay, i, error,
                    \* and where it stands
    attempts,       \* history: the outcome of each request of the call
    waits           \* history: the delay of each setTimeout of the call

quoteVars == <<quoteCounter, products, client, form, table, quotes, lastSubmit>>

routerVars == <<routes, middlewares, routeHistory, currentRoute, currentParams,
                pathname, navigation, trace, navigated, nNavigate>>

apiVars == <<retry, attempts, waits>>

appVars == <<quoteVars, routerVars, apiVars>>

trieVars == <<root, cache>>

paVars == <<productList, options, cachedResults>>

histVars == <<inserted, nChanges, filledWith>>

uiVars == <<thisTrie, highlightRegexCache, elements, bound, inputValue, display,
            items, currentFocus, lastQuery, debounceTimer, timers, thrown, burst,
            lastEvent>>

vars == <<root, cache, productList, options, cachedResults, inserted, nChanges,
          filledWith, lastCall, thisTrie, highlightRegexCache, elements, bound,
          inputValue, display, items, currentFocus, lastQuery, debounceTimer,
          timers, thrown, burst, lastEvent, appVars>>

\* ------------------------------------------------------------------------
\* Map (insertion ordered)
\* ------------------------------------------------------------------------
mapHas(m, key) == \E i \in 1..Len(m) : m[i].key = key

mapGet(m, key) == m[CHOOSE i \in 1..Len(m) : m[i].key = key].value

\* a set that puts a new key before the others
mapSetFirst(m, key, value) ==
    IF mapHas(m, key)
    THEN [i \in 1..Len(m) |-> IF m[i].key = key THEN [key |-> key, value |-> value] ELSE m[i]]
    ELSE <<[key |-> key, value |-> value]>> \o m

\* Map.prototype.set: the value of a key is replaced in place, a new key
\* goes last
mapSet(m, key, value) ==
    IF mapHas(m, key)
    THEN [i \in 1..Len(m) |-> IF m[i].key = key THEN [key |-> key, value |-> value] ELSE m[i]]
    ELSE Append(m, [key |-> key, value |-> value])

mapKeys(m) == {m[i].key : i \in 1..Len(m)}

\* an eviction that deletes nothing
mapDeleteNothing(m) == m

\* this.cache.delete(this.cache.keys().next().value)
mapDeleteFirst(m) == IF m = <<>> THEN m ELSE Tail(m)

\* ------------------------------------------------------------------------
\* Trie.insert
\* ------------------------------------------------------------------------
\* the loop of insert: the trie and the node reached
RECURSIVE insertWalk(_, _, _)
insertWalk(t, current, chars) ==
    IF chars = <<>> THEN [t |-> t, current |-> current]
    ELSE IF ~hasChild(t[current], Head(chars))
    THEN insertWalk((Append(current, Head(chars)) :> [TrieNode EXCEPT !.popularity = 1])
                    @@ [t EXCEPT ![current].children = Append(@, Head(chars))],
                    Append(current, Head(chars)), Tail(chars))
    ELSE insertWalk([t EXCEPT ![Append(current, Head(chars))].popularity = @ + 1],
                    Append(current, Head(chars)), Tail(chars))

\* an insert that counts the word twice
insertRootTwice(t, word) ==
    LET w == insertWalk(t, <<>>, toLowerCase(word))
    IN [w.t EXCEPT ![w.current].isEndOfWord = TRUE,
                   ![w.current].word = word,
                   ![w.current].frequency = @ + 2]

\* an insert that sets the frequency of the word to 1
insertRootOnce(t, word) ==
    LET w == insertWalk(t, <<>>, toLowerCase(word))
    IN [w.t EXCEPT ![w.current].isEndOfWord = TRUE,
                   ![w.current].word = word,
                   ![w.current].frequency = 1]

\* insert up to the clearing of the cache: the nodes afterwards
insertRoot(t, word) ==
    LET w == insertWalk(t, <<>>, toLowerCase(word))
    IN [w.t EXCEPT ![w.current].isEndOfWord = TRUE,
                   ![w.current].word = word,
                   ![w.current].frequency = @ + 1]

\* an insert that leaves the cache as it is
insertCacheKept(c) == c

\* this.cache.clear() at the end of insert
insertCache(c) == <<>>

\* insert as a whole: the trie and its cache after insert(word)
insert(trie, word) ==
    [root |-> insertRoot(trie.root, word), cache |-> insertCache(trie.cache)]

\* words.forEach(word => this.insert(word)) from the from-th word to the
\* to-th, in this order: the first half, then the second (the test on the
\* first half has it evaluated before the second half is entered)
RECURSIVE insertEach(_, _, _, _)
insertEach(trie, words, from, to) ==
    IF from > to THEN trie
    ELSE IF from = to THEN insert(trie, words[from])
    ELSE LET half == insertEach(trie, words, from, (from + to) \div 2)
         IN IF half.cache = <<>>
            THEN insertEach(half, words, (from + to) \div 2 + 1, to)
            ELSE insertEach(half, words, (from + to) \div 2 + 1, to)

bulkInsert(trie, words) == insertEach(trie, words, 1, Len(words))

\* ------------------------------------------------------------------------
\* Trie.search / Trie.startsWith
\* ------------------------------------------------------------------------
\* the loop "for (const char of s) { if (!current.children[char]) return ...;
\* current = current.children[char] }": the node reached, or undefined
RECURSIVE descend(_, _, _)
descend(t, current, chars) ==
    IF chars = <<>> THEN current
    ELSE IF ~hasChild(t[current], Head(chars)) THEN undefined
    ELSE descend(t, Append(current, Head(chars)), Tail(chars))

\* a walk that creates the nodes it does not find, as the loop of insert
walkCreating(t, current, chars) == insertWalk(t, current, chars)

\* the same loop as the queries run it: the trie afterwards and the node
\* reached; the loop reads current.children[char] and assigns to its local
\* variable current, never to a node
queryWalk(t, current, chars) == [t |-> t, current |-> descend(t, current, chars)]

\* a search that does not fold the case of the word
searchNoFold(t, word) ==
    LET current == descend(t, <<>>, word)
    IN IF current = undefined THEN FALSE ELSE t[current].isEndOfWord

\* a search that accepts every node, terminal or not
searchAsPrefix(t, word) ==
    descend(t, <<>>, toLowerCase(word)) # undefined

search(t, word) ==
    LET current == descend(t, <<>>, toLowerCase(word))
    IN IF current = undefined THEN FALSE ELSE t[current].isEndOfWord

startsWith(t, prefix) ==
    descend(t, <<>>, toLowerCase(prefix)) # undefined

\* ------------------------------------------------------------------------
\* Trie.autocomplete
\* ------------------------------------------------------------------------
\* the destructured options with their defaults
defaultOptions == [limit |-> defaultLimit, caseSensitive |-> FALSE,
                   minWordLength |-> 1, maxWordLength |-> Infinity]

\* a cache key that leaves the prefix out
cacheKeyOfNothing(normalizedPrefix) == <<"autocomplete_">>

\* `autocomplete_${normalizedPrefix}`
cacheKeyOf(normalizedPrefix) == <<"autocomplete_">> \o normalizedPrefix

\* collectSuggestions(node, currentWord): preorder DFS; currentWord has the
\* length of the node's path
RECURSIVE collectSuggestions(_, _, _, _)
RECURSIVE collectChildren(_, _, _, _, _)
collectSuggestions(t, node, minWordLength, maxWordLength) ==
    LET wordLength == Len(node)
        own == IF t[node].isEndOfWord
                  /\ wordLength >= minWordLength /\ wordLength <= maxWordLength
               THEN <<[word |-> t[node].word, frequency |-> t[node].frequency,
                       popularity |-> t[node].popularity]>>
               ELSE <<>>
    IN own \o collectChildren(t, node, 1, minWordLength, maxWordLength)

collectChildren(t, node, i, minWordLength, maxWordLength) ==
    IF i > Len(t[node].children) THEN <<>>
    ELSE collectSuggestions(t, Append(node, t[node].children[i]),
                            minWordLength, maxWordLength)
         \o collectChildren(t, node, i + 1, minWordLength, maxWordLength)

\* a comparator that ranks by popularity before frequency
comparePopularityFirst(a, b) ==
    IF a.popularity # b.popularity THEN b.popularity - a.popularity
    ELSE IF a.frequency # b.frequency THEN b.frequency - a.frequency
    ELSE Len(a.word) - Len(b.word)

\* the comparator given to sort
compare(a, b) ==
    IF a.frequency # b.frequency THEN b.frequency - a.frequency
    ELSE IF a.popularity # b.popularity THEN b.popularity - a.popularity
    ELSE Len(a.word) - Len(b.word)

\* Array.prototype.sort is stable: an element goes before the first one
\* that compares greater
sortInsert(sorted, x) ==
    LET later == {i \in 1..Len(sorted) : compare(sorted[i], x) > 0}
        at == IF later = {} THEN Len(sorted) + 1
              ELSE CHOOSE i \in later : \A j \in later : i <= j
    IN SubSeq(sorted, 1, at - 1) \o <<x>> \o SubSeq(sorted, at, Len(sorted))

RECURSIVE sort(_)
sort(arr) ==
    IF arr = <<>> THEN <<>>
    ELSE sortInsert(sort(SubSeq(arr, 1, Len(arr) - 1)), arr[Len(arr)])

mapWord(arr) == [i \in 1..Len(arr) |-> arr[i].word]

\* the traversal, ranking and truncation of a cache miss
rankedSuggestions(t, current, opts) ==
    slice(mapWord(sort(collectSuggestions(t, current, opts.minWordLength,
                                          opts.maxWordLength))),
          opts.limit)

\* autocomplete(prefix, options): the value returned, the cache and the
\* nodes afterwards
autocomplete(trie, prefix, opts) ==
    LET normalizedPrefix == IF opts.caseSensitive THEN prefix
                            ELSE toLowerCase(prefix)
        cacheKey == cacheKeyOf(normalizedPrefix)
        walk == queryWalk(trie.root, <<>>, normalizedPrefix)
        current == descend(trie.root, <<>>, normalizedPrefix)
        ranked == rankedSuggestions(trie.root, current, opts)
        room == IF Len(trie.cache) >= maxCacheSize
                THEN mapDeleteFirst(trie.cache) ELSE trie.cache
    IN IF mapHas(trie.cache, cacheKey)
       THEN [result |-> mapGet(trie.cache, cacheKey), cache |-> trie.cache,
             root |-> trie.root]
       ELSE IF current = undefined
       THEN [result |-> <<>>, cache |-> trie.cache, root |-> walk.t]
       ELSE [result |-> ranked, cache |-> mapSet(room, cacheKey, ranked),
             root |-> walk.t]

\* getSuggestions(prefix, limit = 10)
getSuggestions(trie, prefix, limit) ==
    autocomplete(trie, prefix, [defaultOptions EXCEPT !.limit = limit])

\* ------------------------------------------------------------------------
\* ProductAutocomplete: constructor, initializeTrie, getSuggestions,
\* clearCaches, updateProductList
\* ------------------------------------------------------------------------
\* "given || fallback" on a number or a boolean option; an option that is
\* not given is the falsy 0 / FALSE
orElse(given, fallback) == IF given = 0 THEN fallback ELSE given

\* this.options of the constructor
paOptions(given) ==
    [minCharacters |-> orElse(given.minCharacters, 2),
     maxSuggestions |-> orElse(given.maxSuggestions, 10),
     caseSensitive |-> given.caseSensitive,
     highlightMatch |-> given.highlightMatch # FALSE]

\* productList.map(item => item.toUpperCase())
upperAll(list) == [i \in 1..Len(list) |-> toUpperCase(list[i])]

\* this.processedProducts of initializeTrie
processedProducts(list, opts) ==
    IF opts.caseSensitive THEN list ELSE upperAll(list)

\* initializeTrie(): the trie afterwards
initializeTrie(trie, list, opts) ==
    IF Len(list) = 0 THEN trie
    ELSE bulkInsert(trie, processedProducts(list, opts))

\* a store that skips empty results
paStoreNonEmpty(m, key, value) == IF value = <<>> THEN m ELSE mapSet(m, key, value)

\* this.cachedResults.set(cacheKey, limitedSuggestions)
paStore(m, key, value) == mapSet(m, key, value)

\* ProductAutocomplete.getSuggestions(prefix): the value returned, both
\* caches afterwards, and the number of calls made to trie.getSuggestions
paGetSuggestions(trie, opts, results, prefix) ==
    LET cacheKey == IF opts.caseSensitive THEN prefix ELSE toUpperCase(prefix)
        r == getSuggestions(trie, cacheKey, defaultLimit)
        limitedSuggestions == slice(r.result, opts.maxSuggestions)
        room == IF Len(results) >= paMaxCacheSize
                THEN mapDeleteFirst(results) ELSE results
    IN IF prefix = <<>> \/ Len(prefix) < opts.minCharacters
       THEN [result |-> <<>>, cachedResults |-> results, cache |-> trie.cache,
             trieCalls |-> 0]
       ELSE IF mapHas(results, cacheKey)
       THEN [result |-> mapGet(results, cacheKey), cachedResults |-> results,
             cache |-> trie.cache, trieCalls |-> 0]
       ELSE [result |-> limitedSuggestions,
             cachedResults |-> paStore(room, cacheKey, limitedSuggestions),
             cache |-> r.cache, trieCalls |-> 1]

\* Object.assign(productList, newProductList): the indices of the new array
\* overwrite those of the old one, the rest of the old array stays
objectAssign(target, source) ==
    [i \in 1..(IF Len(source) > Len(target) THEN Len(source) ELSE Len(target)) |->
        IF i <= Len(source) THEN source[i] ELSE target[i]]

\* ------------------------------------------------------------------------
\* ProductAutocomplete: the bound input and the suggestion surface
\* ------------------------------------------------------------------------
\* String.prototype.trim: the blanks at both ends go
RECURSIVE trimStart(_)
trimStart(s) == IF s # <<>> /\ Head(s) = " " THEN trimStart(Tail(s)) ELSE s

RECURSIVE trimEnd(_)
trimEnd(s) ==
    IF s # <<>> /\ s[Len(s)] = " " THEN trimEnd(SubSeq(s, 1, Len(s) - 1)) ELSE s

trim(s) == trimEnd(trimStart(s))

\* a clearTimeout that cancels nothing
clearTimeoutIgnored(pending, handle) == pending

\* clearTimeout(handle): the callback of the handle will not run; handle
\* is {} for null
clearTimeout(pending, handle) == pending \ handle

\* the handle setTimeout returns: one that no pending callback has
setTimeout(pending) ==
    CHOOSE h \in 1..(Cardinality(pending) + 1) :
        /\ h \notin pending
        /\ \A g \in 1..(h - 1) : g \in pending

\* the characters of /[.*+?^${}()|[\]\\]/
specialChars == {".", "*", "+", "?", "^", "$", "{", "}", "(", ")", "|", "[", "]", "\\"}

\* inputValue.replace(/[.*+?^${}()|[\]\\]/g, '\\$&')
RECURSIVE escapeInput(_)
escapeInput(s) ==
    IF s = <<>> THEN <<>>
    ELSE (IF Head(s) \in specialChars THEN <<"\\", Head(s)>> ELSE <<Head(s)>>)
         \o escapeInput(Tail(s))

\* new RegExp(`(${escapedInput})`, 'gi')
newRegExp(escapedInput) == [source |-> <<"(">> \o escapedInput \o <<")">>, flags |-> "gi"]

\* the characters the pattern of a RegExp built by newRegExp matches: the
\* group is opened, and an escaped character stands for itself
RECURSIVE unescape(_)
unescape(s) ==
    IF s = <<>> THEN <<>>
    ELSE IF Head(s) = "\\" /\ Len(s) >= 2 THEN <<s[2]>> \o unescape(SubSeq(s, 3, Len(s)))
    ELSE <<Head(s)>> \o unescape(Tail(s))

literalOf(regex) == unescape(SubSeq(regex.source, 2, Len(regex.source) - 1))

\* suggestion.replace(regex, '<strong>$1</strong>') from index i on: every
\* match, letters compared without case, is wrapped in the two tags
RECURSIVE replaceFrom(_, _, _)
replaceFrom(s, i, pattern) ==
    IF i > Len(s) THEN <<>>
    ELSE IF /\ pattern # <<>>
            /\ i + Len(pattern) - 1 <= Len(s)
            /\ toLowerCase(SubSeq(s, i, i + Len(pattern) - 1)) = toLowerCase(pattern)
    THEN <<"<strong>">> \o SubSeq(s, i, i + Len(pattern) - 1) \o <<"</strong>">>
         \o replaceFrom(s, i + Len(pattern), pattern)
    ELSE <<s[i]>> \o replaceFrom(s, i + 1, pattern)

highlightMaxSize == 50

\* highlightMatchedText(suggestion, inputValue): the markup returned and
\* highlightRegexCache afterwards
highlightMatchedText(regexCache, suggestion, inputText) ==
    LET key == toLowerCase(inputText)
        stored == mapSet(regexCache, key, newRegExp(escapeInput(inputText)))
        after == IF mapHas(regexCache, key) THEN regexCache
                 ELSE IF Len(stored) > highlightMaxSize THEN mapDeleteFirst(stored)
                 ELSE stored
    IN IF inputText = <<>> THEN [html |-> suggestion, cache |-> regexCache]
       ELSE [html |-> replaceFrom(suggestion, 1, literalOf(mapGet(after, key))),
             cache |-> after]

\* a textContent that keeps the markup
textContentWithTags(html) == html

\* Node.textContent of a div whose innerHTML is html: the tags go
RECURSIVE textContent(_)
textContent(html) ==
    IF html = <<>> THEN <<>>
    ELSE IF Head(html) \in {"<strong>", "</strong>"} THEN textContent(Tail(html))
    ELSE <<Head(html)>> \o textContent(Tail(html))

\* a clearSuggestions that hides the container and leaves its children
clearSuggestionsHideOnly(registry, surface) ==
    IF "suggestions_container" \in registry
    THEN [display |-> "none", items |-> surface.items]
    ELSE surface

\* a clearSuggestions that does nothing
clearSuggestionsKeepShown(registry, surface) == surface

\* this.dom.hide('suggestions_container'); this.dom.clear('suggestions_container'):
\* nothing happens when no element is cached under the key
clearSuggestions(registry, surface) ==
    IF "suggestions_container" \in registry
    THEN [display |-> "none", items |-> <<>>]
    ELSE surface

\* suggestions.forEach(...) of displaySuggestions, up to the n-th
\* suggestion: the divs built and highlightRegexCache afterwards.  A div is
\* its innerHTML and whether it has the class active-suggestion; suggestion
\* is history, the string the div was built from.
RECURSIVE suggestionItems(_, _, _, _, _)
suggestionItems(regexCache, suggestions, n, inputText, opts) ==
    IF n = 0 THEN [items |-> <<>>, cache |-> regexCache]
    ELSE LET before == suggestionItems(regexCache, suggestions, n - 1, inputText, opts)
             h == highlightMatchedText(before.cache, suggestions[n], inputText)
         IN IF opts.highlightMatch
            THEN [items |-> Append(before.items,
                                   [innerHTML |-> h.html, active |-> FALSE,
                                    suggestion |-> suggestions[n]]),
                  cache |-> h.cache]
            ELSE [items |-> Append(before.items,
                                   [innerHTML |-> suggestions[n], active |-> FALSE,
                                    suggestion |-> suggestions[n]]),
                  cache |-> before.cache]

\* displaySuggestions(suggestions, container, input, inputValue): the
\* surface and highlightRegexCache afterwards, and whether it threw
displaySuggestions(registry, surface, regexCache, suggestions, inputText, opts) ==
    LET built == suggestionItems(regexCache, suggestions, Len(suggestions), inputText, opts)
        cleared == clearSuggestions(registry, surface)
    IN IF suggestions = <<>>
       THEN [display |-> cleared.display, items |-> cleared.items,
             cache |-> regexCache, threw |-> FALSE]
       ELSE IF "suggestions_container" \notin registry
       THEN [display |-> surface.display, items |-> surface.items,
             cache |-> built.cache, threw |-> TRUE]
       ELSE [display |-> "block", items |-> built.items,
             cache |-> built.cache, threw |-> FALSE]

\* a navigation that stops at both ends of the list
navigateSuggestionsNoWrap(list, focus, direction) ==
    LET removed == IF focus >= 0 /\ focus < Len(list)
                   THEN [list EXCEPT ![focus + 1].active = FALSE] ELSE list
        moved == focus + direction
        next == IF moved >= Len(list) THEN Len(list) - 1
                ELSE IF moved < 0 THEN 0 ELSE moved
    IN [items |-> [removed EXCEPT ![next + 1].active = TRUE], currentFocus |-> next]

\* a navigation that moves currentFocus and never wraps it
navigateSuggestionsUnchecked(list, focus, direction) ==
    LET removed == IF focus >= 0 /\ focus < Len(list)
                   THEN [list EXCEPT ![focus + 1].active = FALSE] ELSE list
        next == focus + direction
    IN [items |-> IF next >= 0 /\ next < Len(list)
                  THEN [removed EXCEPT ![next + 1].active = TRUE] ELSE removed,
        currentFocus |-> next]

\* navigateSuggestions(items, direction); items[i] of the code is
\* list[i + 1]
navigateSuggestions(list, focus, direction) ==
    LET removed == IF focus >= 0 /\ focus < Len(list)
                   THEN [list EXCEPT ![focus + 1].active = FALSE] ELSE list
        moved == focus + direction
        next == IF moved >= Len(list) THEN 0
                ELSE IF moved < 0 THEN Len(list) - 1 ELSE moved
    IN [items |-> [removed EXCEPT ![next + 1].active = TRUE], currentFocus |-> next]

\* a selectSuggestion that dispatches 'change' whatever currentFocus is
selectSuggestionAlwaysNotifies(registry, surface, focus, value) ==
    LET cleared == clearSuggestions(registry, surface)
    IN IF focus > -1 /\ focus < Len(surface.items)
       THEN [value |-> textContent(surface.items[focus + 1].innerHTML),
             display |-> cleared.display, items |-> cleared.items, changes |-> 1]
       ELSE [value |-> value, display |-> surface.display, items |-> surface.items,
             changes |-> 1]

\* selectSuggestion(items, input, suggestionsContainer): input.value, the
\* surface and the 'change' events dispatched; nothing happens unless
\* currentFocus is the index of an item
selectSuggestion(registry, surface, focus, value) ==
    LET cleared == clearSuggestions(registry, surface)
    IN IF focus > -1 /\ focus < Len(surface.items)
       THEN [value |-> textContent(surface.items[focus + 1].innerHTML),
             display |-> cleared.display, items |-> cleared.items, changes |-> 1]
       ELSE [value |-> value, display |-> surface.display, items |-> surface.items,
             changes |-> 0]

\* getSuggestions dereferences this.trie when the prefix is long enough and
\* cachedResults has no entry for it
getSuggestionsThrows(ref, opts, results, prefix) ==
    /\ ref = "null"
    /\ prefix # <<>> /\ Len(prefix) >= opts.minCharacters
    /\ ~mapHas(results, IF opts.caseSensitive THEN prefix ELSE toUpperCase(prefix))

\* ------------------------------------------------------------------------
\* Inputs of the operations
\* ------------------------------------------------------------------------
\* new Trie(initialWords)
InitialWordLists == {<<>>, << <<"a">> >>, << <<"A", "b">>, <<"a">> >>}

BulkLists == {<< <<"a", "b">>, <<"b">> >>}

\* autocomplete(prefix, options): the options left out have their defaults
limitOne == [defaultOptions EXCEPT !.limit = 1]

caseSensitive == [defaultOptions EXCEPT !.caseSensitive = TRUE]

fromTwoLetters == [defaultOptions EXCEPT !.minWordLength = 2]

AutocompleteCalls ==
    {<< <<>>, defaultOptions >>, << <<>>, limitOne >>,
     << <<"a">>, defaultOptions >>, << <<"a">>, limitOne >>,
     << <<"a">>, fromTwoLetters >>,
     << <<"A">>, defaultOptions >>, << <<"A">>, caseSensitive >>,
     << <<"a", "b">>, defaultOptions >>, << <<"a", "a">>, defaultOptions >>}

\* getSuggestions(prefix, limit)
GetSuggestionsCalls == {<< <<"a">>, 1 >>, << <<"A">>, defaultLimit >>}

\* eleven product names that extend "a"
ElevenProducts ==
    << <<"a">>, <<"a", "a">>, <<"a", "b">>,
       <<"a", "a", "a">>, <<"a", "a", "b">>, <<"a", "b", "a">>, <<"a", "b", "b">>,
       <<"a", "a", "a", "a">>, <<"a", "a", "a", "b">>, <<"a", "a", "b", "a">>,
       <<"a", "a", "b", "b">> >>

\* the productList the page is loaded with
ProductLists == {<<>>, << <<"A", "b">>, <<"a">>, <<"a", "b">> >>, ElevenProducts}

\* the options given to new ProductAutocomplete(options)
GivenOptions ==
    {[minCharacters |-> 0, maxSuggestions |-> 0, caseSensitive |-> FALSE,
      highlightMatch |-> TRUE],
     [minCharacters |-> 1, maxSuggestions |-> 1, caseSensitive |-> FALSE,
      highlightMatch |-> TRUE],
     [minCharacters |-> 1, maxSuggestions |-> 11, caseSensitive |-> FALSE,
      highlightMatch |-> TRUE],
     [minCharacters |-> 1, maxSuggestions |-> 0, caseSensitive |-> TRUE,
      highlightMatch |-> TRUE]}

\* the argument of updateProductList: arrays, and a value that is no array
notAnArray == << <<"not an array">> >>

NewProductLists == {<<>>, << <<"b">>, <<"a", "a">> >>, notAnArray}

\* the prefixes given to ProductAutocomplete.getSuggestions
PrefixInputs == {<<>>, <<"a">>, <<"a", "b">>, <<"A", "b">>, <<"b", "b">>}

\* words inserted into the controller's trie directly
DirectWords == {<<"A", "B">>}

\* the record of a call: what was called with which argument and options,
\* the sequence or the boolean returned, the calls it made to
\* trie.getSuggestions, whether the call before it was the same call, and
\* what that one returned
NoCall == [op |-> "none", arg |-> <<>>, options |-> defaultOptions,
           result |-> <<>>, found |-> FALSE, trieCalls |-> 0,
           repeat |-> FALSE, prevResult |-> <<>>]

\* new Trie(initialWords): each word is inserted in lower case
RECURSIVE lowerAll(_)
lowerAll(words) ==
    IF words = <<>> THEN <<>>
    ELSE <<toLowerCase(Head(words))>> \o lowerAll(Tail(words))

\* the bag of the elements of a sequence of words
bagOf(words) ==
    [w \in {words[i] : i \in 1..Len(words)} |->
        Cardinality({i \in 1..Len(words) : words[i] = w})]

\* the history of Trie.cache: the options of the call that stored each key,
\* opts for the keys newCache has gained
filled(history, newCache, opts) ==
    [k \in mapKeys(newCache) |-> IF k \in DOMAIN history THEN history[k] ELSE opts]

\* the product names of a page whose input is bound
BoundProductLists ==
    {<< <<"a", "b">>, <<"a", "b", "a">>, <<"a", "b", "b">> >>}

\* the options of a controller that is bound: the defaults, and one
\* character with no highlighting
BoundOptions ==
    {[minCharacters |-> 0, maxSuggestions |-> 0, caseSensitive |-> FALSE,
      highlightMatch |-> TRUE],
     [minCharacters |-> 1, maxSuggestions |-> 0, caseSensitive |-> FALSE,
      highlightMatch |-> FALSE]}

\* the keys DOMElements finds an element for: both elements of
\* initializeAutocomplete('product', 'suggestions_container'), or the input
\* alone (DOM_IDS of constants.js has no SUGGESTIONS_CONTAINER entry)
Registries == {{"product", "suggestions_container"}, {"product"}}

\* the text an input event leaves in the input
InputValues == {<<>>, <<"a">>, <<"a", "b">>, <<"a", "b", " ">>}

Keys == {"ArrowDown", "ArrowUp", "Enter", "Escape", "Tab"}

\* no input event yet, or none since destroy
NoBurst == [events |-> 0, runs |-> 0, intact |-> TRUE]

\* no event handled yet, or the last one was neither a keydown of Enter
\* nor a click on an item
NoEvent == [type |-> "none", key |-> "", changes |-> 0]

\* ------------------------------------------------------------------------
\* The page outside the autocomplete: QuoteState and the form of
\* QuoteGenerator, Router, and a call of ApiService.fetchWithRetry
\* ------------------------------------------------------------------------
NoSubmit == [valid |-> FALSE, appended |-> 0, rendered |-> FALSE]

NoNavigation == [path |-> <<>>, matched |-> FALSE, route |-> <<>>, params |-> <<>>,
                 pushState |-> FALSE, stack |-> <<>>, next |-> 0]

NoTrace == [ran |-> <<>>, called |-> <<>>, handled |-> 0,
            before |-> [currentRoute |-> <<>>, currentParams |-> <<>>,
                        routeHistory |-> <<>>]]

NoRetry == [at |-> "idle", retries |-> 0, delay |-> 0, i |-> 0,
            error |-> "undefined", result |-> "undefined"]

\* new QuoteState() and the empty form of the page
InitQuote ==
    /\ quoteCounter = 1
    /\ products = <<>>
    /\ client = <<>>
    /\ form = [client |-> <<>>, product |-> <<>>, quantity |-> <<>>, price |-> <<>>]
    /\ table = [client_name |-> <<>>, rows |-> <<>>, total |-> 0]
    /\ quotes = <<>>
    /\ lastSubmit = NoSubmit

\* new Router(); a route is the sequence of its segments, one after each
\* '/', and the currentRoute null is written <<>>
InitRouter ==
    /\ routes = <<>>
    /\ middlewares = <<>>
    /\ routeHistory = <<>>
    /\ currentRoute = <<>>
    /\ currentParams = <<>>
    /\ pathname = << "" >>
    /\ navigation = NoNavigation
    /\ trace = NoTrace
    /\ navigated = <<>>
    /\ nNavigate = 0

\* no call of fetchWithRetry has been made
InitApi ==
    /\ retry = NoRetry
    /\ attempts = <<>>
    /\ waits = <<>>

InitApp == InitQuote /\ InitRouter /\ InitApi

\* the session state the constructor leaves, over a page whose elements
\* are cached under the keys of registry
InitSession(registry) ==
    /\ thisTrie = "Trie"
    /\ highlightRegexCache = <<>>
    /\ elements = registry
    /\ bound = FALSE
    /\ inputValue = <<>>
    /\ display = ""
    /\ items = <<>>
    /\ currentFocus = -1
    /\ lastQuery = <<>>
    /\ debounceTimer = {}
    /\ timers = {}
    /\ thrown = FALSE
    /\ burst = NoBurst
    /\ lastEvent = NoEvent
    /\ InitApp

emptyTrie == [root |-> (<<>> :> TrieNode), cache |-> <<>>]

theTrie == [root |-> root, cache |-> cache]

\* new Trie(initialWords); no controller is bound to it
Init ==
    \E initialWords \in InitialWordLists :
        LET trie == bulkInsert(emptyTrie, lowerAll(initialWords))
        IN /\ root = trie.root
           /\ cache = trie.cache
           /\ inserted = bagOf(lowerAll(initialWords))
           /\ productList = <<>>
           /\ options = paOptions([minCharacters |-> 0, maxSuggestions |-> 0,
                                   caseSensitive |-> FALSE, highlightMatch |-> TRUE])
           /\ cachedResults = <<>>
           /\ nChanges = 0
           /\ filledWith = <<>>
           /\ lastCall = NoCall
           /\ InitSession({})

\* new ProductAutocomplete(given) over the productList of the page
InitPA ==
    \E list \in ProductLists, given \in GivenOptions :
        LET opts == paOptions(given)
            trie == initializeTrie(emptyTrie, list, opts)
        IN /\ root = trie.root
           /\ cache = trie.cache
           /\ inserted = bagOf(IF Len(list) = 0 THEN <<>>
                               ELSE processedProducts(list, opts))
           /\ productList = list
           /\ options = opts
           /\ cachedResults = <<>>
           /\ nChanges = 0
           /\ filledWith = <<>>
           /\ lastCall = NoCall
           /\ InitSession({})

\* ------------------------------------------------------------------------
\* A controller whose caches have been filled
\* ------------------------------------------------------------------------
\* the nodes of the complete trie over "a" and "b", numbered level by
\* level from the root: node 1 is the root, node i has the children 2i
\* and 2i + 1
depthOf(i) == CHOOSE n \in 0..(TrieDepth + 1) : 2^n <= i /\ i < 2^(n + 1)

pathOf(i) ==
    [k \in 1..depthOf(i) |->
        IF (i \div 2^(depthOf(i) - k)) % 2 = 0 THEN "a" ELSE "b"]

\* the productList of a large page: every name of TrieDepth letters
ManyProducts == [i \in 1..2^TrieDepth |-> pathOf(2^TrieDepth + i - 1)]

\* the first of the names: the prefixes from this node on are whole names
firstName == 2^TrieDepth

\* options that no word of the vocabulary satisfies
noWords == [defaultOptions EXCEPT !.minWordLength = Infinity]

\* autocomplete(pathOf(i), noWords) for i from `from` to `to`, in this order
RECURSIVE autocompleteEach(_, _, _)
autocompleteEach(trie, from, to) ==
    IF from > to THEN trie
    ELSE IF from = to
    THEN [trie EXCEPT !.cache = autocomplete(trie, pathOf(from), noWords).cache]
    ELSE LET half == autocompleteEach(trie, from, (from + to) \div 2)
         IN IF half.cache = <<>>
            THEN autocompleteEach(half, (from + to) \div 2 + 1, to)
            ELSE autocompleteEach(half, (from + to) \div 2 + 1, to)

\* getSuggestions(pathOf(i)) of the controller for i from `from` to `to`:
\* both caches afterwards
RECURSIVE paGetSuggestionsEach(_, _, _, _)
paGetSuggestionsEach(both, opts, from, to) ==
    IF from > to THEN both
    ELSE IF from = to
    THEN LET r == paGetSuggestions([root |-> both.root, cache |-> both.cache], opts,
                                   both.cachedResults, pathOf(from))
         IN [both EXCEPT !.cache = r.cache, !.cachedResults = r.cachedResults]
    ELSE LET half == paGetSuggestionsEach(both, opts, from, (from + to) \div 2)
         IN IF half.cachedResults = <<>>
            THEN paGetSuggestionsEach(half, opts, (from + to) \div 2 + 1, to)
            ELSE paGetSuggestionsEach(half, opts, (from + to) \div 2 + 1, to)

\* highlightMatchedText(suggestion, pathOf(i)) for i from `from` to `to`
RECURSIVE highlightEach(_, _, _, _)
highlightEach(regexCache, suggestion, from, to) ==
    IF from > to THEN regexCache
    ELSE IF from = to
    THEN highlightMatchedText(regexCache, suggestion, pathOf(from)).cache
    ELSE LET half == highlightEach(regexCache, suggestion, from, (from + to) \div 2)
         IN IF half = <<>>
            THEN highlightEach(half, suggestion, (from + to) \div 2 + 1, to)
            ELSE highlightEach(half, suggestion, (from + to) \div 2 + 1, to)

\* the calls made on the filled controller: the key stored first, and a
\* key never stored
AutocompleteProbes ==
    {<<pathOf(1), noWords>>, <<pathOf(maxCacheSize + 1), defaultOptions>>}

PrefixProbes == {pathOf(firstName), pathOf(firstName + paMaxCacheSize)}

HighlightProbes == {pathOf(2), pathOf(highlightMaxSize + 2)}

\* new ProductAutocomplete({minCharacters: 1}) over ManyProducts, after
\* autocomplete was called on the first maxCacheSize nodes, getSuggestions
\* on the first paMaxCacheSize names and highlightMatchedText on
\* highlightMaxSize inputs, or on one less of each
InitCaches ==
    \E less \in 0..1 :
        LET opts == paOptions([minCharacters |-> 1, maxSuggestions |-> 0,
                               caseSensitive |-> FALSE, highlightMatch |-> TRUE])
            built == initializeTrie(emptyTrie, ManyProducts, opts)
            trie == autocompleteEach(built, 1, maxCacheSize - less)
            both == paGetSuggestionsEach(
                        [root |-> trie.root, cache |-> trie.cache, cachedResults |-> <<>>],
                        opts, firstName, firstName + paMaxCacheSize - 1 - less)
        IN /\ root = both.root
           /\ cache = both.cache
           /\ inserted = bagOf(processedProducts(ManyProducts, opts))
           /\ productList = ManyProducts
           /\ options = opts
           /\ cachedResults = both.cachedResults
           /\ nChanges = 0
           /\ filledWith = filled(filled(<<>>, trie.cache, noWords), both.cache,
                                  defaultOptions)
           /\ lastCall = NoCall
           /\ thisTrie = "Trie"
           /\ highlightRegexCache =
                 highlightEach(<<>>, ManyProducts[1], 2, highlightMaxSize + 1 - less)
           /\ elements = {}
           /\ bound = FALSE
           /\ inputValue = <<>>
           /\ display = ""
           /\ items = <<>>
           /\ currentFocus = -1
           /\ lastQuery = <<>>
           /\ debounceTimer = {}
           /\ timers = {}
           /\ thrown = FALSE
           /\ burst = NoBurst
           /\ lastEvent = NoEvent
           /\ InitApp

\* new ProductAutocomplete(given) on a page with an input and a container
InitUI ==
    \E list \in BoundProductLists, given \in BoundOptions, registry \in Registries :
        LET opts == paOptions(given)
            trie == initializeTrie(emptyTrie, list, opts)
        IN /\ root = trie.root
           /\ cache = trie.cache
           /\ inserted = bagOf(IF Len(list) = 0 THEN <<>>
                               ELSE processedProducts(list, opts))
           /\ productList = list
           /\ options = opts
           /\ cachedResults = <<>>
           /\ nChanges = 0
           /\ filledWith = <<>>
           /\ lastCall = NoCall
           /\ InitSession(registry)

\* ------------------------------------------------------------------------
\* The operations of Trie
\* ------------------------------------------------------------------------
Insert(word) ==
    /\ nChanges < MaxChanges
    /\ LET trie == insert(theTrie, word)
       IN /\ root' = trie.root
          /\ cache' = trie.cache
    /\ inserted' = inserted (+) SetToBag({word})
    /\ nChanges' = nChanges + 1
    /\ filledWith' = filled(filledWith, cache', defaultOptions)
    /\ lastCall' = [NoCall EXCEPT !.op = "insert", !.found = TRUE]
    /\ UNCHANGED <<paVars, uiVars, appVars>>

BulkInsert(words) ==
    /\ nChanges < MaxChanges
    /\ LET trie == bulkInsert(theTrie, words)
       IN /\ root' = trie.root
          /\ cache' = trie.cache
    /\ inserted' = inserted (+) bagOf(words)
    /\ nChanges' = nChanges + 1
    /\ filledWith' = filled(filledWith, cache', defaultOptions)
    /\ lastCall' = [NoCall EXCEPT !.op = "bulkInsert", !.found = TRUE]
    /\ UNCHANGED <<paVars, uiVars, appVars>>

Search(word) ==
    /\ lastCall' = [NoCall EXCEPT !.op = "search", !.arg = word,
                                  !.found = search(root, word)]
    /\ root' = queryWalk(root, <<>>, toLowerCase(word)).t
    /\ UNCHANGED <<cache, paVars, histVars, uiVars, appVars>>

StartsWith(prefix) ==
    /\ lastCall' = [NoCall EXCEPT !.op = "startsWith", !.arg = prefix,
                                  !.found = startsWith(root, prefix)]
    /\ root' = queryWalk(root, <<>>, toLowerCase(prefix)).t
    /\ UNCHANGED <<cache, paVars, histVars, uiVars, appVars>>

\* autocomplete(prefix, options), as long as Trie.cache has at most `most`
\* entries afterwards
AutocompleteWithin(prefix, opts, most) ==
    LET r == autocomplete(theTrie, prefix, opts)
    IN /\ Len(r.cache) <= most
       /\ cache' = r.cache
       /\ lastCall' = [NoCall EXCEPT !.op = "autocomplete", !.arg = prefix,
                                     !.options = opts, !.result = r.result]
       /\ filledWith' = filled(filledWith, cache', opts)
       /\ root' = r.root
       /\ UNCHANGED <<paVars, inserted, nChanges, uiVars, appVars>>

Autocomplete(prefix, opts) == AutocompleteWithin(prefix, opts, MaxCached)

GetSuggestions(prefix, limit) ==
    LET r == getSuggestions(theTrie, prefix, limit)
    IN /\ Len(r.cache) <= MaxCached
       /\ cache' = r.cache
       /\ lastCall' = [NoCall EXCEPT !.op = "getSuggestions", !.arg = prefix,
                                     !.options = [defaultOptions EXCEPT !.limit = limit],
                                     !.result = r.result]
       /\ filledWith' = filled(filledWith, cache', [defaultOptions EXCEPT !.limit = limit])
       /\ root' = r.root
       /\ UNCHANGED <<paVars, inserted, nChanges, uiVars, appVars>>

\* ------------------------------------------------------------------------
\* The operations of ProductAutocomplete
\* ------------------------------------------------------------------------
\* getSuggestions(prefix), as long as cachedResults has at most `most`
\* entries afterwards
PAGetSuggestionsWithin(prefix, most) ==
    LET r == paGetSuggestions(theTrie, options, cachedResults, prefix)
        sameAsLast == lastCall.op = "PA.getSuggestions" /\ lastCall.arg = prefix
    IN /\ Len(r.cachedResults) <= most
       /\ cache' = r.cache
       /\ cachedResults' = r.cachedResults
       /\ lastCall' = [NoCall EXCEPT !.op = "PA.getSuggestions", !.arg = prefix,
                                     !.result = r.result, !.trieCalls = r.trieCalls,
                                     !.repeat = sameAsLast,
                                     !.prevResult = IF sameAsLast THEN lastCall.result
                                                    ELSE <<>>]
       /\ filledWith' = filled(filledWith, cache', defaultOptions)
       /\ UNCHANGED <<root, productList, options, inserted, nChanges, uiVars, appVars>>

PAGetSuggestions(prefix) == PAGetSuggestionsWithin(prefix, MaxCachedResults)

\* highlightMatchedText(suggestion, inputValue) called on its own
HighlightMatchedText(suggestion, inputText) ==
    /\ options.highlightMatch
    /\ highlightRegexCache' =
          highlightMatchedText(highlightRegexCache, suggestion, inputText).cache
    /\ lastCall' = [NoCall EXCEPT !.op = "highlightMatchedText", !.arg = inputText]
    /\ UNCHANGED <<trieVars, paVars, histVars, appVars, thisTrie, elements, bound, inputValue,
                   display, items, currentFocus, lastQuery, debounceTimer, timers,
                   thrown, burst, lastEvent>>

\* updateProductList(newProductList): clearCaches, Object.assign,
\* initializeTrie; initializeTrie dereferences this.trie when the list is
\* not empty
UpdateProductList(newProductList) ==
    /\ nChanges < MaxChanges
    /\ IF newProductList = notAnArray
       THEN /\ lastCall' = [NoCall EXCEPT !.op = "updateProductList",
                                          !.result = newProductList]
            /\ UNCHANGED <<trieVars, paVars, inserted, filledWith, uiVars, appVars>>
       ELSE LET list == objectAssign(productList, newProductList)
                throws == Len(list) # 0 /\ thisTrie = "null"
                trie == IF throws THEN theTrie
                        ELSE initializeTrie(theTrie, list, options)
            IN /\ cachedResults' = <<>>
               /\ highlightRegexCache' = <<>>
               /\ productList' = list
               /\ root' = trie.root
               /\ cache' = trie.cache
               /\ inserted' = IF throws THEN inserted
                              ELSE inserted (+) bagOf(IF Len(list) = 0 THEN <<>>
                                                      ELSE processedProducts(list, options))
               /\ lastCall' = [NoCall EXCEPT !.op = "updateProductList",
                                             !.result = newProductList,
                                             !.found = (Len(list) # 0 /\ ~throws)]
               /\ filledWith' = filled(filledWith, cache', defaultOptions)
               /\ thrown' = (thrown \/ throws)
               /\ UNCHANGED <<options, appVars, thisTrie, elements, bound, inputValue, display,
                              items, currentFocus, lastQuery, debounceTimer, timers,
                              burst, lastEvent>>
    /\ nChanges' = nChanges + 1

\* ------------------------------------------------------------------------
\* The handlers of a bound ProductAutocomplete
\* ------------------------------------------------------------------------
modelVars == <<root, cache, productList, options, cachedResults, inserted,
               nChanges, filledWith>>

theSurface == [display |-> display, items |-> items]

\* initializeAutocomplete('product', 'suggestions_container'): when an
\* element is missing, console.error and return; found records whether the
\* listeners were registered
InitializeAutocomplete ==
    /\ ~bound
    /\ bound' = ("product" \in elements /\ "suggestions_container" \in elements)
    /\ lastCall' = [NoCall EXCEPT !.op = "initializeAutocomplete", !.found = bound']
    /\ lastEvent' = NoEvent
    /\ UNCHANGED <<modelVars, appVars, thisTrie, highlightRegexCache, elements, inputValue,
                   display, items, currentFocus, lastQuery, debounceTimer, timers,
                   thrown, burst>>

\* an input event that leaves value in the input: debouncedHandleInput
InputEvent(value) ==
    /\ bound
    /\ timers # {} => burst.events < MaxBurst
    /\ LET pending == clearTimeout(timers, debounceTimer)
           handle == setTimeout(pending)
       IN /\ timers' = pending \cup {handle}
          /\ debounceTimer' = {handle}
    /\ inputValue' = value
    /\ burst' = [events |-> IF timers = {} THEN 1 ELSE burst.events + 1,
                 runs |-> 0, intact |-> TRUE]
    /\ lastEvent' = NoEvent
    /\ UNCHANGED <<modelVars, lastCall, appVars, thisTrie, highlightRegexCache, elements, bound, display,
                   items, currentFocus, lastQuery, thrown>>

\* the callback of setTimeout runs: handleInput(input, suggestionsContainer)
TimerFires(handle) ==
    /\ handle \in timers
    /\ timers' = timers \ {handle}
    /\ currentFocus' = -1
    /\ burst' = [burst EXCEPT !.runs = @ + 1]
    /\ lastEvent' = NoEvent
    /\ LET value == trim(inputValue)
           r == paGetSuggestions(theTrie, options, cachedResults, value)
           d == displaySuggestions(elements, theSurface, highlightRegexCache,
                                   r.result, value, options)
           cleared == clearSuggestions(elements, theSurface)
       IN IF value = lastQuery
          THEN UNCHANGED <<modelVars, highlightRegexCache, display, items,
                           lastQuery, thrown>>
          ELSE /\ lastQuery' = value
               /\ IF Len(value) < options.minCharacters
                  THEN /\ display' = cleared.display
                       /\ items' = cleared.items
                       /\ UNCHANGED <<modelVars, highlightRegexCache, thrown>>
                  ELSE IF getSuggestionsThrows(thisTrie, options, cachedResults, value)
                  THEN /\ thrown' = TRUE
                       /\ UNCHANGED <<modelVars, highlightRegexCache, display, items>>
                  ELSE /\ Len(r.cachedResults) <= MaxCachedResults
                       /\ cache' = r.cache
                       /\ cachedResults' = r.cachedResults
                       /\ filledWith' = filled(filledWith, cache', defaultOptions)
                       /\ highlightRegexCache' = d.cache
                       /\ display' = d.display
                       /\ items' = d.items
                       /\ thrown' = (thrown \/ d.threw)
                       /\ UNCHANGED <<root, productList, options, inserted, nChanges>>
    /\ UNCHANGED <<lastCall, appVars, thisTrie, elements, bound, inputValue, debounceTimer>>

\* a keydown event on the input; input.dispatchEvent(new Event('change'))
\* is counted in lastEvent
KeyDown(key) ==
    /\ bound
    /\ LET moved == navigateSuggestions(items, currentFocus,
                                        IF key = "ArrowDown" THEN 1 ELSE -1)
           cleared == clearSuggestions(elements, theSurface)
           selected == selectSuggestion(elements, theSurface, currentFocus, inputValue)
           handled == IF key = "Enter"
                      THEN [NoEvent EXCEPT !.type = "keydown", !.key = key]
                      ELSE NoEvent
       IN IF display = "none" \/ items = <<>>
          THEN /\ lastEvent' = handled
               /\ UNCHANGED <<inputValue, display, items, currentFocus, burst>>
          ELSE IF key \in {"ArrowDown", "ArrowUp"}
          THEN /\ items' = moved.items
               /\ currentFocus' = moved.currentFocus
               /\ lastEvent' = handled
               /\ UNCHANGED <<inputValue, display, burst>>
          ELSE IF key = "Enter"
          THEN /\ inputValue' = selected.value
               /\ display' = selected.display
               /\ items' = selected.items
               /\ burst' = [burst EXCEPT !.intact = @ /\ selected.changes = 0]
               /\ lastEvent' = [handled EXCEPT !.changes = selected.changes]
               /\ UNCHANGED currentFocus
          ELSE IF key = "Tab" /\ currentFocus = -1
          THEN /\ inputValue' = textContent(items[1].innerHTML)
               /\ display' = cleared.display
               /\ items' = cleared.items
               /\ burst' = [burst EXCEPT !.intact = FALSE]
               /\ lastEvent' = handled
               /\ UNCHANGED currentFocus
          ELSE IF key = "Escape"
          THEN /\ display' = cleared.display
               /\ items' = cleared.items
               /\ lastEvent' = handled
               /\ UNCHANGED <<inputValue, currentFocus, burst>>
          ELSE /\ lastEvent' = handled
               /\ UNCHANGED <<inputValue, display, items, currentFocus, burst>>
    /\ UNCHANGED <<modelVars, lastCall, appVars, thisTrie, highlightRegexCache, elements, bound,
                   lastQuery, debounceTimer, timers, thrown>>

\* a click on the i-th item of the list that is shown
ClickSuggestion(i) ==
    /\ bound
    /\ display = "block"
    /\ i \in 1..Len(items)
    /\ inputValue' = textContent(items[i].innerHTML)
    /\ display' = "none"
    /\ burst' = [burst EXCEPT !.intact = FALSE]
    /\ lastEvent' = [NoEvent EXCEPT !.type = "click", !.changes = 1]
    /\ UNCHANGED <<modelVars, lastCall, appVars, thisTrie, highlightRegexCache, elements, bound, items,
                   currentFocus, lastQuery, debounceTimer, timers, thrown>>

\* a click outside the container and the input
ClickOutside ==
    /\ bound
    /\ LET cleared == clearSuggestions(elements, theSurface)
       IN /\ display' = cleared.display
          /\ items' = cleared.items
    /\ lastEvent' = NoEvent
    /\ UNCHANGED <<modelVars, lastCall, appVars, thisTrie, highlightRegexCache, elements, bound,
                   inputValue, currentFocus, lastQuery, debounceTimer, timers,
                   thrown, burst>>

\* destroy(): clearTimeout, clearCaches, this.trie = null
Destroy ==
    /\ timers' = clearTimeout(timers, debounceTimer)
    /\ cachedResults' = <<>>
    /\ highlightRegexCache' = <<>>
    /\ thisTrie' = "null"
    /\ burst' = NoBurst
    /\ lastEvent' = NoEvent
    /\ UNCHANGED <<root, cache, productList, options, inserted, nChanges, filledWith,
                   lastCall, appVars,
                   elements, bound, inputValue, display, items, currentFocus,
                   lastQuery, debounceTimer, thrown>>

Next ==
    \/ \E word \in InsertWords : Insert(word)
    \/ \E words \in BulkLists : BulkInsert(words)
    \/ \E word \in SearchWords : Search(word)
    \/ \E prefix \in StartsWithPrefixes : StartsWith(prefix)
    \/ \E call \in AutocompleteCalls : Autocomplete(call[1], call[2])
    \/ \E call \in GetSuggestionsCalls : GetSuggestions(call[1], call[2])

Spec == Init /\ [][Next]_vars

NextPA ==
    \/ \E prefix \in PrefixInputs : PAGetSuggestions(prefix)
    \/ \E word \in DirectWords : Insert(word)
    \/ \E list \in NewProductLists : UpdateProductList(list)

SpecPA == InitPA /\ [][NextPA]_vars

NextUI ==
    \/ InitializeAutocomplete
    \/ \E value \in InputValues : InputEvent(value)
    \/ \E handle \in timers : TimerFires(handle)
    \/ \E key \in Keys : KeyDown(key)
    \/ \E i \in 1..Len(items) : ClickSuggestion(i)
    \/ ClickOutside
    \/ Destroy

SpecUI == InitUI /\ [][NextUI]_vars

NextCaches ==
    \/ \E call \in AutocompleteProbes : AutocompleteWithin(call[1], call[2], maxCacheSize)
    \/ \E prefix \in PrefixProbes : PAGetSuggestionsWithin(prefix, paMaxCacheSize)
    \/ \E text \in HighlightProbes : HighlightMatchedText(ManyProducts[1], text)

SpecCaches == InitCaches /\ [][NextCaches]_vars

\* ------------------------------------------------------------------------
\* Properties
\* ------------------------------------------------------------------------
insertedWords == BagToSet(inserted)

insertedLower == {toLowerCase(w) : w \in insertedWords}

isPrefix(p, w) == Len(p) <= Len(w) /\ SubSeq(w, 1, Len(p)) = p

isQuery == lastCall.op \in {"autocomplete", "getSuggestions"}

\* the prefix as autocomplete normalizes it
normalized(prefix, opts) == IF opts.caseSensitive THEN prefix ELSE toLowerCase(prefix)

\* what autocomplete computes when it does not consult the cache
uncached(t, prefix, opts) ==
    LET current == descend(t, <<>>, normalized(prefix, opts))
    IN IF current = undefined THEN <<>> ELSE rankedSuggestions(t, current, opts)

\* the node that holds a returned word
nodeOf(word) == root[toLowerCase(word)]

\* C1: every inserted word is found by search, whatever the case of the
\* query, and every non-empty prefix of it is found by startsWith.
C1_InsertedFound ==
    LET words == insertedLower
    IN \A q \in AllStrings :
        /\ toLowerCase(q) \in words => search(root, q)
        /\ (q # <<>> /\ \E W \in words : isPrefix(toLowerCase(q), W))
              => startsWith(root, q)

\* C1 witness: a two-letter word was inserted with a capital, and search
\* found it under a query written in another case.
C1_Witness ==
    /\ lastCall.op = "search" /\ lastCall.found
    /\ \E W \in insertedWords :
        /\ Len(W) = 2 /\ W # toLowerCase(W)
        /\ lastCall.arg # W /\ toLowerCase(lastCall.arg) = toLowerCase(W)

\* C2: search is false for every word never inserted (up to case), proper
\* prefixes of inserted words and the empty string included; a node is
\* terminal exactly when its path is an inserted word.
C2_NeverInsertedNotFound ==
    LET words == insertedLower
    IN /\ \A q \in AllStrings : toLowerCase(q) \notin words => ~search(root, q)
       /\ \A path \in DOMAIN root : root[path].isEndOfWord <=> path \in words

\* C2 witness: search has just rejected a proper prefix of an inserted
\* word, and the empty string was not inserted either.
C2_Witness ==
    /\ lastCall.op = "search" /\ ~lastCall.found
    /\ lastCall.arg # <<>> /\ toLowerCase(lastCall.arg) \notin insertedLower
    /\ \E W \in insertedLower : isPrefix(toLowerCase(lastCall.arg), W)
    /\ <<>> \notin insertedLower /\ ~search(root, <<>>)

\* C3 (as claimed): startsWith(prefix) is true exactly when some inserted
\* word extends prefix, the empty trie and the empty prefix included.
C3_StartsWithIffExtension ==
    LET words == insertedLower
    IN \A p \in AllStrings :
        startsWith(root, p) <=> \E W \in words : isPrefix(toLowerCase(p), W)

C5_AtMostLimit ==
    isQuery => Len(lastCall.result) <= lastCall.options.limit

\* C6: in a returned sequence an earlier word has the higher frequency, or
\* the same frequency and the higher popularity, or both the same and a
\* length that is not greater.
C6_Ranked ==
    isQuery =>
        \A i, j \in 1..Len(lastCall.result) : i < j =>
            LET a == nodeOf(lastCall.result[i])
                b == nodeOf(lastCall.result[j])
            IN \/ a.frequency > b.frequency
               \/ a.frequency = b.frequency /\ a.popularity > b.popularity
               \/ /\ a.frequency = b.frequency /\ a.popularity = b.popularity
                  /\ Len(lastCall.result[i]) <= Len(lastCall.result[j])

\* C6 witness: a word of higher frequency is listed before a word of
\* higher popularity.
C6_Witness ==
    /\ isQuery
    /\ \E i, j \in 1..Len(lastCall.result) :
        /\ i < j
        /\ nodeOf(lastCall.result[i]).frequency > nodeOf(lastCall.result[j]).frequency
        /\ nodeOf(lastCall.result[i]).popularity < nodeOf(lastCall.result[j]).popularity

\* C8: when the entries of the cache were computed with the options of
\* this call, autocomplete returns what an uncached traversal of the
\* current trie returns; an insert leaves nothing stale behind.
C8_AsUncached ==
    (isQuery /\ \A k \in DOMAIN filledWith : filledWith[k] = lastCall.options)
        => lastCall.result = uncached(root, lastCall.arg, lastCall.options)

\* C8 witness: after a vocabulary change a query answered from the trie
\* with two words, its entry being the one the cache holds.
C8_Witness ==
    /\ isQuery /\ nChanges >= 1 /\ Len(lastCall.result) >= 2
    /\ DOMAIN filledWith = {cacheKeyOf(normalized(lastCall.arg, lastCall.options))}
    /\ \A k \in DOMAIN filledWith : filledWith[k] = lastCall.options

\* the key ProductAutocomplete.getSuggestions looks a prefix up under
paKey(prefix) == IF options.caseSensitive THEN prefix ELSE toUpperCase(prefix)

isPAQuery ==
    /\ lastCall.op = "PA.getSuggestions"
    /\ lastCall.arg # <<>> /\ Len(lastCall.arg) >= options.minCharacters

\* the ranking of every word under a prefix, not truncated
fullRanking(t, prefix) ==
    uncached(t, prefix, [defaultOptions EXCEPT !.limit = Infinity])

\* C7 (as claimed): while the vocabulary is the one the controller was
\* built with, getSuggestions returns the first maxSuggestions entries of
\* the full ranking: nothing but maxSuggestions truncates it.
C7_OnlyMaxSuggestionsTruncates ==
    (isPAQuery /\ nChanges = 0) =>
        lastCall.result = slice(fullRanking(root, paKey(lastCall.arg)),
                                options.maxSuggestions)

\* C9: a getSuggestions call that directly follows a getSuggestions call
\* with the same prefix returns the same result and makes no call to the
\* trie.
C9_SecondCallFromCache ==
    (isPAQuery /\ lastCall.repeat) =>
        (lastCall.result = lastCall.prevResult /\ lastCall.trieCalls = 0)

\* C9 witness: the second of two calls with a prefix that has no match.
C9_Witness ==
    /\ isPAQuery /\ lastCall.repeat
    /\ lastCall.result = <<>>
    /\ insertedWords # {}

\* C10 (as claimed): after a change of the vocabulary both caches are
\* empty, and getSuggestions returns the ranking of the current vocabulary.
C10_CachesEmptyAfterChange ==
    /\ (lastCall.op \in {"insert", "bulkInsert", "updateProductList"} /\ lastCall.found)
          => (cache = <<>> /\ cachedResults = <<>>)
    /\ isPAQuery =>
          lastCall.result = slice(uncached(root, paKey(lastCall.arg), defaultOptions),
                                  options.maxSuggestions)

\* C11 (as claimed): after updateProductList(L) with an array L the words
\* search accepts are exactly the words of L, and the frequency of each is
\* the number of its occurrences in L.
C11_RebuiltFromNewList ==
    (lastCall.op = "updateProductList" /\ lastCall.result # notAnArray) =>
        LET L == processedProducts(lastCall.result, options)
            words == {toLowerCase(L[i]) : i \in 1..Len(L)}
        IN /\ \A q \in AllStrings : search(root, q) <=> toLowerCase(q) \in words
           /\ \A i \in 1..Len(L) :
                 root[toLowerCase(L[i])].frequency =
                     Cardinality({j \in 1..Len(L) : toLowerCase(L[j]) = toLowerCase(L[i])})

storesInOrder(m, after, capacity) ==
    \/ after = m
    \/ /\ after # <<>>
       /\ after[Len(after)].key \notin mapKeys(m)
       /\ after = Append(IF Len(m) >= capacity THEN Tail(m) ELSE m, after[Len(after)])

\* C13: a query that stores a new key in Trie.cache or in cachedResults
\* while the cache is full evicts exactly the entry stored first; below
\* capacity it evicts nothing; a query answered from the cache leaves the
\* order of the entries as it is.
C13_EvictsOldest ==
    [][/\ storesInOrder(cache, cache', maxCacheSize)
       /\ storesInOrder(cachedResults, cachedResults', paMaxCacheSize)]_vars

\* C13 witness: a new key was stored in each cache while it was full: the
\* key stored first is gone, the second is now the oldest and the new one
\* the newest.
C13_Witness ==
    /\ Len(cache) = maxCacheSize
    /\ cache[1].key = cacheKeyOf(pathOf(2))
    /\ cache[maxCacheSize].key = cacheKeyOf(pathOf(maxCacheSize + 1))
    /\ Len(cachedResults) = paMaxCacheSize
    /\ cachedResults[1].key = toUpperCase(pathOf(firstName + 1))
    /\ cachedResults[paMaxCacheSize].key = toUpperCase(pathOf(firstName + paMaxCacheSize))

\* ------------------------------------------------------------------------
\* Properties of the bound controller
\* ------------------------------------------------------------------------
\* the container is shown only with an inline display of its own: the
\* stylesheet gives .suggestions-container display: none
hidden(d) == d # "block"

\* handleInput runs in this step
handleInputRuns == burst'.runs = burst.runs + 1

C15_NoCallbackAfterDestroy ==
    thisTrie = "null" => burst.runs = 0

\* C16 (as claimed): no operation and no handler of the controller throws.
C16_NothingThrows == ~thrown

\* C17: when the timer fires while the trimmed text of the input is shorter
\* than minCharacters the container is hidden and has no item afterwards;
\* and getSuggestions answers every such text with the empty list, makes no
\* call to the trie and stores nothing.
C17_ShortTextHidesSurface ==
    /\ [][(handleInputRuns /\ Len(trim(inputValue)) < options.minCharacters)
             => (hidden(display') /\ items' = <<>>)]_vars
    /\ [](\A text \in InputValues : Len(text) < options.minCharacters =>
            LET r == paGetSuggestions(theTrie, options, cachedResults, text)
            IN /\ r.result = <<>> /\ r.trieCalls = 0
               /\ r.cachedResults = cachedResults /\ r.cache = cache)

\* C17 witness: handleInput has run with a text of one character where two
\* are required, after a list had been computed, and the container is
\* hidden and empty.
C17_Witness ==
    /\ burst.runs = 1 /\ burst.intact
    /\ inputValue = <<"a">> /\ options.minCharacters = 2 /\ lastQuery = <<"a">>
    /\ cachedResults # <<>>
    /\ display = "none" /\ items = <<>>

\* C18: with n >= 1 items on display ArrowDown moves currentFocus from i to
\* (i + 1) mod n and ArrowUp from i to (i - 1) mod n; from -1 ArrowDown
\* goes to 0 and ArrowUp to n - 1.
C18_ArrowsWrap ==
    [][(display = "block" /\ Len(items) >= 1) =>
          /\ KeyDown("ArrowDown") =>
                currentFocus' = IF currentFocus = -1 THEN 0
                                ELSE (currentFocus + 1) % Len(items)
          /\ KeyDown("ArrowUp") =>
                currentFocus' = IF currentFocus = -1 THEN Len(items) - 1
                                ELSE (currentFocus - 1) % Len(items)]_vars

\* C18 witness: the last of three items is highlighted.
C18_Witness ==
    /\ display = "block" /\ Len(items) = 3
    /\ currentFocus = 2 /\ items[3].active

\* C19 (as claimed): while the list is on display the item at index
\* currentFocus, and no other, carries the highlight; none does when
\* currentFocus is -1.
C19_HighlightIsCurrentFocus ==
    display = "block" =>
        \A k \in 1..Len(items) : items[k].active <=> (k = currentFocus + 1)

\* C20: with the list on display and the item at index i highlighted,
\* Enter leaves in the input the i-th suggestion the list was rendered
\* from, and the container hidden.
C20_EnterCommitsHighlighted ==
    [][(/\ KeyDown("Enter")
        /\ display = "block"
        /\ currentFocus \in 0..(Len(items) - 1)
        /\ items[currentFocus + 1].active)
          => /\ inputValue' = items[currentFocus + 1].suggestion
             /\ hidden(display')]_vars

\* C20 witness: after ArrowDown, ArrowDown, Enter on the list of "ab" the
\* input holds the second suggestion and the container is hidden.
C20_Witness ==
    /\ currentFocus = 1 /\ lastQuery = <<"a", "b">>
    /\ inputValue = fullRanking(root, <<"a", "b">>)[2]
    /\ options.highlightMatch
    /\ display = "none" /\ items = <<>>

\* ------------------------------------------------------------------------
\* Commits and dismissals
\* ------------------------------------------------------------------------
\* the list is on display: the keydown handler goes past its two returns
listShown == display # "none" /\ items # <<>>

\* a step that commits a suggestion into the input: Enter on the item at
\* currentFocus, a click on an item, Tab while currentFocus is -1
commits ==
    \/ KeyDown("Enter") /\ listShown /\ currentFocus \in 0..(Len(items) - 1)
    \/ KeyDown("Tab") /\ listShown /\ currentFocus = -1
    \/ \E i \in 1..Len(items) : ClickSuggestion(i)

\* a step that dismisses the list: Escape while it is on display, a click
\* outside the container and the input
dismisses ==
    \/ KeyDown("Escape") /\ listShown
    \/ ClickOutside

\* C21 (as claimed): every commit, by Enter, by a click or by Tab, leaves
\* the container hidden and dispatches exactly one 'change' event on the
\* input.
C21_CommitNotifiesOnce ==
    [][commits => (hidden(display') /\ lastEvent'.changes = 1)]_vars

\* C22: Escape while the list is on display, and a click outside the
\* container and the input, leave the container hidden and input.value as
\* it was, and dispatch no 'change' event.
C22_DismissalKeepsInput ==
    [][dismisses => (/\ hidden(display')
                     /\ inputValue' = inputValue
                     /\ lastEvent'.changes = 0)]_vars

\* C22 witness: the list of "ab" was rendered and then dismissed: the
\* container is hidden and empty while the input still holds "ab", the
\* query handleInput ran with, and no commit wrote it.
C22_Witness ==
    /\ options.minCharacters = 2 /\ thisTrie = "Trie"
    /\ mapHas(cachedResults, <<"A", "B">>)
    /\ inputValue = <<"a", "b">> /\ lastQuery = <<"a", "b">>
    /\ burst.runs = 1 /\ burst.intact
    /\ display = "none" /\ items = <<>>
    /\ lastEvent.changes = 0

\* C23: Enter while currentFocus is -1, while the container is hidden, or
\* while the list is empty or shorter than currentFocus changes neither
\* input.value nor the container nor its items, and dispatches no 'change'
\* event.
C23_EnterWithoutHighlightNoOp ==
    [][(/\ KeyDown("Enter")
        /\ \/ currentFocus = -1
           \/ hidden(display)
           \/ items = <<>>
           \/ currentFocus >= Len(items))
          => (/\ inputValue' = inputValue
              /\ display' = display
              /\ items' = items
              /\ lastEvent'.changes = 0)]_vars

\* C23 witness: Enter was the last event, on a list of three items none of
\* which was at currentFocus; the list is still on display and nothing was
\* dispatched.
C23_Witness ==
    /\ lastEvent.type = "keydown" /\ lastEvent.key = "Enter"
    /\ lastEvent.changes = 0
    /\ currentFocus = -1
    /\ display = "block" /\ Len(items) = 3
    /\ burst.intact

\* C24 (as claimed): a commit or a dismissal leaves the container hidden
\* and no timer pending; a timer armed before a commit (input.value was
\* written since the last input event) never shows the list again.
C24_IdleAfterCommit ==
    /\ [][(commits \/ dismisses) => (hidden(display') /\ timers' = {})]_vars
    /\ [][(handleInputRuns /\ ~burst.intact) => hidden(display')]_vars

\* C25 (as claimed): after handleInput has run on a live controller with a
\* trimmed text t of minCharacters or more, the container is shown exactly
\* when getSuggestions(t) is not empty, and its items are then built from
\* getSuggestions(t), in this order.
C25_RenderedAfterEveryFiring ==
    [][(/\ handleInputRuns
        /\ thisTrie = "Trie"
        /\ Len(trim(inputValue)) >= options.minCharacters)
          => LET r == paGetSuggestions(theTrie, options, cachedResults,
                                       trim(inputValue)).result
             IN /\ display' = "block" <=> r # <<>>
                /\ r # <<>> => [i \in 1..Len(items') |-> items'[i].suggestion] = r]_vars

\* C26 (as claimed): initializeAutocomplete called while the input or the
\* container is missing registers no listener and throws.
C26_FailsFast ==
    (lastCall.op = "initializeAutocomplete" /\ ~lastCall.found) => (~bound /\ thrown)

\* ------------------------------------------------------------------------
\* Properties of the queries and the counters of the trie
\* ------------------------------------------------------------------------
\* C27: search, startsWith, autocomplete and getSuggestions of Trie leave
\* every node as it is: the same paths, and at each the same children,
\* terminal flag, word, frequency and popularity.
C27_QueriesLeaveNodes ==
    [][lastCall'.op \in {"search", "startsWith", "autocomplete", "getSuggestions"}
          => root' = root]_vars

\* C27 witness: autocomplete has returned two words or more and stored
\* them in the cache.
C27_Witness ==
    /\ lastCall.op = "autocomplete"
    /\ Len(lastCall.result) >= 2
    /\ mapHas(cache, cacheKeyOf(normalized(lastCall.arg, lastCall.options)))

\* C28 (as claimed): every word autocomplete returns has a length within
\* minWordLength..maxWordLength of that call, whatever calls preceded it.
C28_LengthsWithinRange ==
    lastCall.op = "autocomplete" =>
        \A i \in 1..Len(lastCall.result) :
            /\ Len(lastCall.result[i]) >= lastCall.options.minWordLength
            /\ Len(lastCall.result[i]) <= lastCall.options.maxWordLength

\* the calls of insert, counted with multiplicity, whose word is one of
\* words
insertCalls(words) == BagCardinality([w \in words |-> inserted[w]])

\* the calls whose word, in lower case, is the path
insertsOf(path) == insertCalls({w \in insertedWords : toLowerCase(w) = path})

\* the calls whose word, in lower case, starts with the path
insertsThrough(path) ==
    insertCalls({w \in insertedWords : isPrefix(path, toLowerCase(w))})

\* C29: the frequency of a terminal node is the number of insert calls with
\* its word (in any case), the popularity of a node other than the root is
\* the number of insert calls whose word starts with its path; and no step
\* removes a node or lowers one of its two counters.
C29_CountersCountInserts ==
    /\ [](\A path \in DOMAIN root :
            /\ root[path].isEndOfWord => root[path].frequency = insertsOf(path)
            /\ path # <<>> => root[path].popularity = insertsThrough(path))
    /\ [][\A path \in DOMAIN root :
            /\ path \in DOMAIN root'
            /\ root'[path].frequency >= root[path].frequency
            /\ root'[path].popularity >= root[path].popularity]_vars

\* C29 witness: "ab" was inserted twice, the last time with a capital, and
\* "a" once: the node of "ab" has frequency 2, the node of "a" frequency 1
\* and popularity 3.
C29_Witness ==
    /\ <<"a", "b">> \in DOMAIN root
    /\ root[<<"a", "b">>].frequency = 2 /\ root[<<"a", "b">>].word = <<"A", "b">>
    /\ root[<<"a">>].frequency = 1 /\ root[<<"a">>].popularity = 3

\* C30: with caseSensitive = false search, startsWith and getSuggestions of
\* the controller answer a string as they answer its lower-case form, so
\* two strings that differ in case alone get the same answer; and
\* getSuggestions leaves the same caches behind, the one entry of
\* cachedResults that serves both included.
C30_CaseInsensitive ==
    ~options.caseSensitive =>
        \A p \in AllStrings :
            LET q == toLowerCase(p)
            IN p # q =>
                  /\ search(root, p) = search(root, q)
                  /\ startsWith(root, p) = startsWith(root, q)
                  /\ paGetSuggestions(theTrie, options, cachedResults, p)
                        = paGetSuggestions(theTrie, options, cachedResults, q)

\* C30 witness: getSuggestions('Ab') was answered with a word and without
\* a call to the trie, from the one entry of cachedResults, stored before
\* the call that preceded it or by that call, which had another argument.
C30_Witness ==
    /\ ~options.caseSensitive
    /\ lastCall.op = "PA.getSuggestions" /\ lastCall.arg = <<"A", "b">>
    /\ ~lastCall.repeat /\ lastCall.trieCalls = 0
    /\ lastCall.result # <<>>
    /\ Len(cachedResults) = 1

\* the sum of the popularity of the children of a node, from the i-th on
RECURSIVE childrenPopularity(_, _, _)
childrenPopularity(t, node, i) ==
    IF i > Len(t[node].children) THEN 0
    ELSE t[Append(node, t[node].children[i])].popularity
         + childrenPopularity(t, node, i + 1)

\* C32: the popularity of every node other than the root is its frequency
\* plus the sum of the popularity of its children, hence at least its
\* frequency and at least the popularity of each node below it; the
\* popularity of the root is 0.
C32_PopularityIsSubtreeCount ==
    /\ root[<<>>].popularity = 0
    /\ \A n \in DOMAIN root : n # <<>> =>
          /\ root[n].popularity = root[n].frequency + childrenPopularity(root, n, 1)
          /\ root[n].popularity >= root[n].frequency
          /\ \A c \in DOMAIN root :
                (isPrefix(n, c) /\ c # n) => root[n].popularity >= root[c].popularity

\* C32 witness: "a" was inserted once and "ab" twice, and the empty word
\* once: the node of "a" has popularity 3 = 1 + 2, the root has frequency 1
\* and popularity 0.
C32_Witness ==
    /\ <<"a", "b">> \in DOMAIN root
    /\ root[<<"a">>].frequency = 1 /\ root[<<"a">>].popularity = 3
    /\ root[<<"a", "b">>].popularity = 2
    /\ root[<<>>].frequency = 1 /\ root[<<>>].popularity = 0

\* C33: while the container is shown with n items, currentFocus is in
\* -1..n-1: navigateSuggestions and selectSuggestion index no item outside
\* the list, also after a list of fewer items was rendered.
C33_FocusWithinList ==
    display = "block" => currentFocus \in -1..(Len(items) - 1)

\* C33 witness: the second of three items was committed with Enter, which
\* leaves currentFocus at 1; a list of one item was rendered for the
\* committed text, and ArrowDown has highlighted its only item.
C33_Witness ==
    /\ display = "block" /\ Len(items) = 1
    /\ lastQuery = <<"A", "B", "A">>
    /\ currentFocus = 0 /\ items[1].active

\* ------------------------------------------------------------------------
\* QuoteState, Validations, QuoteUtils and the handlers of QuoteGenerator
\* ------------------------------------------------------------------------
MaxProducts == 2

MaxCounter == 5

Digits == <<"0", "1", "2", "3", "4", "5", "6", "7", "8", "9">>

\* NaN, which no number of the model equals: the inputs carry no sign
NaN == -1

isDigit(c) == \E d \in 1..10 : Digits[d] = c

digitValue(c) == (CHOOSE d \in 1..10 : Digits[d] = c) - 1

\* the digits s starts with
RECURSIVE digitsAhead(_)
digitsAhead(s) ==
    IF s # <<>> /\ isDigit(Head(s)) THEN <<Head(s)>> \o digitsAhead(Tail(s)) ELSE <<>>

\* the number a string of digits is the decimal numeral of
RECURSIVE numberOf(_)
numberOf(digits) ==
    IF digits = <<>> THEN 0
    ELSE 10 * numberOf(SubSeq(digits, 1, Len(digits) - 1))
            + digitValue(digits[Len(digits)])

\* parseInt(value): blanks are skipped, the digits ahead are read, NaN
\* when there is none; the inputs carry no sign
parseInt(value) ==
    LET digits == digitsAhead(trimStart(value))
    IN IF digits = <<>> THEN NaN ELSE numberOf(digits)

\* parseFloat(value), in hundredths: blanks are skipped, the digits, a
\* point and the digits after it are read, NaN when no digit is read;
\* exact for the inputs, which carry at most two decimals and no sign
parseFloat(value) ==
    LET s == trimStart(value)
        whole == digitsAhead(s)
        rest == SubSeq(s, Len(whole) + 1, Len(s))
        decimals == IF rest # <<>> /\ Head(rest) = "." THEN digitsAhead(Tail(rest))
                    ELSE <<>>
        hundredths == SubSeq(decimals \o <<"0", "0">>, 1, 2)
    IN IF whole = <<>> /\ decimals = <<>> THEN NaN
       ELSE 100 * numberOf(whole) + numberOf(hundredths)

\* /^\d+$/.test(s)
matchesInteger(s) == s # <<>> /\ digitsAhead(s) = s

\* /^\d*\.?\d*$/.test(s)
matchesNumber(s) ==
    LET whole == digitsAhead(s)
        rest == SubSeq(s, Len(whole) + 1, Len(s))
    IN \/ rest = <<>>
       \/ Head(rest) = "." /\ digitsAhead(Tail(rest)) = Tail(rest)

\* !value for a string: the empty string
falsyString(value) == value = <<>>

\* validateNotEmpty(value, errorMessage) does not throw
validateNotEmpty(value) == ~(falsyString(value) \/ trim(value) = <<>>)

\* validateNumber(value, minValue, errorMessage) does not throw; minValue
\* is in hundredths as well
validateNumber(value, minValue) ==
    LET stringValue == trim(value)
        number == parseFloat(value)
    IN /\ ~(~matchesNumber(stringValue) \/ stringValue = <<>>)
       /\ ~(number = NaN \/ (number # NaN /\ number < minValue))

\* validateInteger(value, errorMessage) does not throw
validateInteger(value) ==
    LET stringValue == trim(value)
        number == parseInt(value)
    IN /\ ~(~matchesInteger(stringValue) \/ stringValue = <<>>)
       /\ ~(number = NaN \/ (number # NaN /\ number < 1))

\* Validations.validateForm({nombre, cantidad, precio, cliente}): false as
\* soon as a validation throws
validateForm(product) ==
    /\ validateNotEmpty(product.cliente)
    /\ validateNotEmpty(product.nombre)
    /\ validateNotEmpty(product.cantidad)
    /\ validateInteger(product.cantidad)
    /\ validateNotEmpty(product.precio)
    /\ validateNumber(product.precio, 0)

\* !value for a number: 0 and NaN
falsyNumber(value) == value = 0 \/ value = NaN

\* QuoteState.addProduct(product): the products after the call and what it
\* returned; the id and addedAt it adds to the copy are read nowhere
stateAddProduct(list, product) ==
    IF falsyString(product.nombre) \/ falsyNumber(product.cantidad)
          \/ falsyNumber(product.precio)
    THEN [ok |-> FALSE, products |-> list]
    ELSE [ok |-> TRUE, products |-> Append(list, product)]

\* QuoteState.removeProduct(index), index counted from 0
removeProduct(list, index) ==
    IF index < 0 \/ index >= Len(list) THEN list
    ELSE SubSeq(list, 1, index) \o SubSeq(list, index + 2, Len(list))

\* QuoteState.getTotal(), in hundredths
RECURSIVE getTotal(_)
getTotal(list) ==
    IF list = <<>> THEN 0
    ELSE getTotal(SubSeq(list, 1, Len(list) - 1))
            + list[Len(list)].cantidad * list[Len(list)].precio

\* renderProducts(): client_name, one row for each product, the total; the
\* filler rows carry no product
renderProducts(inputs, list) ==
    [client_name |-> inputs.client,
     rows |-> [i \in 1..Len(list) |->
                  [cantidad |-> list[i].cantidad, nombre |-> list[i].nombre,
                   precio |-> list[i].precio,
                   subtotal |-> list[i].cantidad * list[i].precio]],
     total |-> getTotal(list)]

\* clearInputs(): product, quantity and price are emptied, client is kept
clearInputs(inputs) ==
    [inputs EXCEPT !.product = <<>>, !.quantity = <<>>, !.price = <<>>]

\* this.currentDate, new Date().toLocaleDateString() of the day the page
\* was loaded
currentDate == <<"3", "/", "1", "1", "/", "2", "0", "2", "6">>

\* QuoteUtils.cleanDate(date): date.replace(/[/-]/g, '')
RECURSIVE cleanDate(_)
cleanDate(date) ==
    IF date = <<>> THEN <<>>
    ELSE IF Head(date) \in {"/", "-"} THEN cleanDate(Tail(date))
    ELSE <<Head(date)>> \o cleanDate(Tail(date))

\* name.split(' ')
RECURSIVE split(_, _)
split(name, word) ==
    IF name = <<>> THEN <<word>>
    ELSE IF Head(name) = " " THEN <<word>> \o split(Tail(name), <<>>)
    ELSE split(Tail(name), Append(word, Head(name)))

\* QuoteUtils.getInitials(name): the first character of each word in
\* upper case, '' for an empty word
RECURSIVE joinInitials(_)
joinInitials(words) ==
    IF words = <<>> THEN <<>>
    ELSE toUpperCase(slice(Head(words), 1)) \o joinInitials(Tail(words))

getInitials(name) == joinInitials(split(name, <<>>))

\* counter.toString()
RECURSIVE toString(_)
toString(n) ==
    IF n < 10 THEN <<Digits[n + 1]>>
    ELSE toString(n \div 10) \o <<Digits[(n % 10) + 1]>>

\* s.padStart(targetLength, '0')
RECURSIVE padStart(_, _)
padStart(s, targetLength) ==
    IF Len(s) >= targetLength THEN s ELSE padStart(<<"0">> \o s, targetLength)

\* QuoteUtils.generateQuoteIdentifier(counter)
generateQuoteIdentifier(counter) == padStart(toString(counter), 3)

\* the file name made of a client name and a counter value
fileNameOf(clientName, counter) ==
    getInitials(clientName) \o cleanDate(currentDate) \o <<"-">>
        \o generateQuoteIdentifier(counter) \o <<".", "p", "n", "g">>

\* generateFileName(): the name made of the counter as it is, and the
\* counter after this.state.quoteCounter++
generateFileName(inputs, counter) ==
    [name |-> fileNameOf(inputs.client, counter), quoteCounter |-> counter + 1]

\* e.target.value.replace(/[^\d]/g, '')
RECURSIVE digitsOnly(_)
digitsOnly(s) ==
    IF s = <<>> THEN <<>>
    ELSE IF isDigit(Head(s)) THEN <<Head(s)>> \o digitsOnly(Tail(s))
    ELSE digitsOnly(Tail(s))

\* what the input listeners leave of a text typed into the inputs:
\* setUpperCase on client and product, restrictNumericInput on quantity
typeInto(typed) ==
    [client |-> toUpperCase(typed.client), product |-> toUpperCase(typed.product),
     quantity |-> slice(digitsOnly(typed.quantity), 8), price |-> typed.price]

\* what the user types into the four inputs before a click on 'add'
Forms ==
    LET f(cliente, nombre, cantidad, precio) ==
            [client |-> cliente, product |-> nombre, quantity |-> cantidad,
             price |-> precio]
    IN {f(<<"a", "b", " ", "B">>, <<"a">>, <<"2">>, <<"1", ".", "5">>),
        f(<<"b">>, <<"b">>, <<"1">>, <<"0">>),
        f(<<"b">>, <<"b">>, <<"0">>, <<"3">>),
        f(<<"b">>, <<"b">>, <<"1">>, <<".">>),
        f(<<"b">>, <<" ">>, <<"1", ".">>, <<"3">>),
        f(<<>>, <<"a">>, <<"1">>, <<"3">>)}

\* how a run of generateQuoteImage goes: to its end, or the capture
\* element or the canvas is missing, or link.click() throws
Outcomes == {"ok", "no capture", "no canvas", "click throws"}

\* the user types into the inputs and clicks 'add': addProduct()
AddProduct(typed) ==
    LET inputs == typeInto(typed)
        product == [nombre |-> inputs.product, cantidad |-> inputs.quantity,
                    precio |-> inputs.price, cliente |-> inputs.client]
        valid == validateForm(product)
        parsed == [product EXCEPT !.cantidad = parseInt(product.cantidad),
                                  !.precio = parseFloat(product.precio)]
        added == stateAddProduct(products, parsed)
    IN /\ Len(products) < MaxProducts
       /\ IF ~valid
          THEN /\ form' = inputs
               /\ lastSubmit' = [valid |-> FALSE, appended |-> 0, rendered |-> FALSE]
               /\ UNCHANGED <<products, client, table>>
          ELSE /\ client' = product.cliente
               /\ products' = added.products
               /\ IF ~added.ok
                  THEN /\ form' = inputs
                       /\ UNCHANGED table
                  ELSE /\ table' = renderProducts(inputs, added.products)
                       /\ form' = clearInputs(inputs)
               /\ lastSubmit' = [valid |-> TRUE,
                                 appended |-> Len(added.products) - Len(products),
                                 rendered |-> added.ok]
       /\ UNCHANGED <<quoteCounter, quotes, routerVars, apiVars>>
       /\ UNCHANGED <<modelVars, lastCall, uiVars>>

\* a click on the delete button of row index: removeProduct, renderProducts
RemoveProduct(index) ==
    /\ products' = removeProduct(products, index)
    /\ table' = renderProducts(form, products')
    /\ lastSubmit' = NoSubmit
    /\ UNCHANGED <<quoteCounter, client, form, quotes, routerVars, apiVars>>
    /\ UNCHANGED <<modelVars, lastCall, uiVars>>

\* a click on 'generate': generateQuoteImage(), with downloadImage and the
\* file name logged after it
GenerateQuoteImage(outcome) ==
    LET downloaded == generateFileName(form, quoteCounter)
        logged == generateFileName(form, downloaded.quoteCounter)
    IN /\ quoteCounter < MaxCounter
       /\ IF Len(products) = 0 \/ outcome \in {"no capture", "no canvas"}
          THEN UNCHANGED <<quoteCounter, quotes>>
          ELSE IF outcome = "click throws"
          THEN /\ quoteCounter' = downloaded.quoteCounter
               /\ UNCHANGED quotes
          ELSE /\ quoteCounter' = logged.quoteCounter
               /\ quotes' = Append(quotes, [downloaded |-> downloaded.name,
                                            reported |-> logged.name])
       /\ lastSubmit' = NoSubmit
       /\ UNCHANGED <<products, client, form, table, routerVars, apiVars>>
       /\ UNCHANGED <<modelVars, lastCall, uiVars>>

\* new QuoteGenerator() on the page
InitQuoteGenerator ==
    /\ root = emptyTrie.root
    /\ cache = emptyTrie.cache
    /\ inserted = EmptyBag
    /\ productList = <<>>
    /\ options = paOptions([minCharacters |-> 0, maxSuggestions |-> 0,
                            caseSensitive |-> FALSE, highlightMatch |-> TRUE])
    /\ cachedResults = <<>>
    /\ nChanges = 0
    /\ filledWith = <<>>
    /\ lastCall = NoCall
    /\ InitSession({})

NextQuote ==
    \/ \E typed \in Forms : AddProduct(typed)
    \/ \E index \in 0..(Len(products) - 1) : RemoveProduct(index)
    \/ \E outcome \in Outcomes : GenerateQuoteImage(outcome)

SpecQuote == InitQuoteGenerator /\ [][NextQuote]_vars

\* ------------------------------------------------------------------------
\* the part of a file name between its last '-' and '.png'
RECURSIVE afterDash(_)
afterDash(name) ==
    IF name = <<>> \/ name[Len(name)] = "-" THEN <<>>
    ELSE Append(afterDash(SubSeq(name, 1, Len(name) - 1)), name[Len(name)])

identifier(name) == LET tail == afterDash(name) IN SubSeq(tail, 1, Len(tail) - 4)

\* C31 (as claimed): quoteCounter starts at 1 and grows by exactly one with
\* each quote image generated, so the k-th quote is downloaded under the
\* identifier k padded to three digits, and the file name reported for a
\* quote is the one it was downloaded under.
C31_IdentifierCountsQuotes ==
    /\ [](quoteCounter = 1 + Len(quotes))
    /\ [](\A k \in 1..Len(quotes) :
             /\ identifier(quotes[k].downloaded) = generateQuoteIdentifier(k)
             /\ quotes[k].reported = quotes[k].downloaded)
    /\ [][Len(quotes') = Len(quotes) + 1 => quoteCounter' = quoteCounter + 1]_vars

\* C34 (as claimed): a form that validateForm accepts adds exactly one
\* product to QuoteState.products and the table is rendered again with it.
C34_ValidatedIsAppended ==
    lastSubmit.valid =>
        /\ lastSubmit.appended = 1
        /\ lastSubmit.rendered
        /\ Len(table.rows) = Len(products)

\* ------------------------------------------------------------------------
\* Router
\* ------------------------------------------------------------------------
maxHistorySize == 25

MaxNavigations == 2

MaxMiddlewares == 2

MaxNextCalls == 2

\* a segment of a route: a text, or a parameter ':name'
literal(text) == [param |-> FALSE, text |-> text]

parameter(name) == [param |-> TRUE, text |-> name]

\* the routes '/' and '/user/:id'
homeRoute == <<literal("")>>

userRoute == <<literal("user"), parameter("id")>>

Routes == {homeRoute, userRoute}

\* the paths '/', '/user/a%20b' and '/about'
Paths == {<<"">>, <<"user", "a%20b">>, <<"about">>}

\* decodeURIComponent(segment), for the segments of Paths
decodeURIComponent(segment) == IF segment = "a%20b" THEN "a b" ELSE segment

\* path.match(new RegExp(`^${regex}$`)): a text stands for itself and a
\* parameter for ([^\/]+), one segment that is not empty
matches(route, path) ==
    /\ Len(route) = Len(path)
    /\ \A i \in 1..Len(route) :
          IF route[i].param THEN path[i] # "" ELSE route[i].text = path[i]

\* the params of a match, in the order of paramNames
RECURSIVE paramsOf(_, _, _)
paramsOf(route, path, i) ==
    IF i > Len(route) THEN <<>>
    ELSE IF route[i].param
    THEN << [key |-> route[i].text, value |-> decodeURIComponent(path[i])] >>
            \o paramsOf(route, path, i + 1)
    ELSE paramsOf(route, path, i + 1)

\* _matchRoute(path): the first route of this.routes, in insertion order,
\* that the path matches
RECURSIVE matchRoute(_, _)
matchRoute(registered, path) ==
    IF registered = <<>> THEN [matched |-> FALSE, route |-> <<>>, params |-> <<>>]
    ELSE IF matches(Head(registered), path)
    THEN [matched |-> TRUE, route |-> Head(registered),
          params |-> paramsOf(Head(registered), path, 1)]
    ELSE matchRoute(Tail(registered), path)

\* a history that lets go of its newest entry
pushHistoryDropNewest(history, route) ==
    IF Len(history) + 1 > maxHistorySize THEN history ELSE Append(history, route)

\* this.routeHistory.push(route), and shift() above maxHistorySize
pushHistory(history, route) ==
    LET pushed == Append(history, route)
    IN IF Len(pushed) > maxHistorySize THEN Tail(pushed) ELSE pushed

theRouter ==
    [currentRoute |-> currentRoute, currentParams |-> currentParams,
     routeHistory |-> routeHistory]

\* addRoute(path, handler): this.routes[path] = handler; a path that is
\* registered keeps its place
AddRoute(route) ==
    /\ routes' = IF \E i \in 1..Len(routes) : routes[i] = route THEN routes
                 ELSE Append(routes, route)
    /\ UNCHANGED <<middlewares, routeHistory, currentRoute, currentParams, pathname,
                   navigation, trace, navigated, nNavigate>>
    /\ UNCHANGED <<quoteVars, apiVars, modelVars, lastCall, uiVars>>

\* use(fn): the middleware is known by its place in this.middlewares
Use ==
    /\ Len(middlewares) < MaxMiddlewares
    /\ middlewares' = Append(middlewares, Len(middlewares) + 1)
    /\ UNCHANGED <<routes, routeHistory, currentRoute, currentParams, pathname,
                   navigation, trace, navigated, nNavigate>>
    /\ UNCHANGED <<quoteVars, apiVars, modelVars, lastCall, uiVars>>

\* navigate(path, pushState) up to the first next() of _runMiddlewares,
\* which is left to be run; the middlewares of the navigate before have
\* returned
Navigate(path, pushState) ==
    LET matched == matchRoute(routes, path)
    IN /\ navigation.next = 0
       /\ nNavigate < MaxNavigations
       /\ nNavigate' = nNavigate + 1
       /\ navigation' =
             IF ~matched.matched
             THEN [NoNavigation EXCEPT !.path = path, !.pushState = pushState]
             ELSE [path |-> path, matched |-> TRUE, route |-> matched.route,
                   params |-> matched.params, pushState |-> pushState,
                   stack |-> middlewares, next |-> 1]
       /\ trace' = [NoTrace EXCEPT !.before = theRouter]
       /\ UNCHANGED <<routes, middlewares, routeHistory, currentRoute, currentParams,
                      pathname, navigated>>
       /\ UNCHANGED <<quoteVars, apiVars, modelVars, lastCall, uiVars>>

\* a call of next(): the middleware at the head of the stack runs and
\* calls next `calls` times, or, the stack being empty, done() runs
\* executeHandler
CallNext(calls) ==
    /\ navigation.next > 0
    /\ IF navigation.stack # <<>>
       THEN /\ navigation' = [navigation EXCEPT !.stack = Tail(@),
                                                !.next = @ - 1 + calls]
            /\ trace' = [trace EXCEPT !.ran = Append(@, Head(navigation.stack)),
                                      !.called = Append(@, calls)]
            /\ UNCHANGED <<routeHistory, currentRoute, currentParams, pathname,
                           navigated>>
       ELSE /\ calls = 0
            /\ navigation' = [navigation EXCEPT !.next = @ - 1]
            /\ pathname' = IF navigation.pushState THEN navigation.path ELSE pathname
            /\ currentRoute' = navigation.route
            /\ currentParams' = navigation.params
            /\ routeHistory' = pushHistory(routeHistory, navigation.route)
            /\ navigated' = Append(navigated, navigation.route)
            /\ trace' = [trace EXCEPT !.handled = @ + 1]
    /\ UNCHANGED <<routes, middlewares, nNavigate>>
    /\ UNCHANGED <<quoteVars, apiVars, modelVars, lastCall, uiVars>>

\* the home route n times
homeRoutes(n) == [i \in 1..n |-> homeRoute]

\* a page with a new Router, or with a Router on which '/' is registered
\* and has been navigated to maxHistorySize times
InitRouterPage ==
    \E visits \in {0, maxHistorySize} :
        /\ InitQuote
        /\ InitApi
        /\ root = emptyTrie.root
        /\ cache = emptyTrie.cache
        /\ inserted = EmptyBag
        /\ productList = <<>>
        /\ options = paOptions([minCharacters |-> 0, maxSuggestions |-> 0,
                                caseSensitive |-> FALSE, highlightMatch |-> TRUE])
        /\ cachedResults = <<>>
        /\ nChanges = 0
        /\ filledWith = <<>>
        /\ lastCall = NoCall
        /\ thisTrie = "Trie"
        /\ highlightRegexCache = <<>>
        /\ elements = {}
        /\ bound = FALSE
        /\ inputValue = <<>>
        /\ display = ""
        /\ items = <<>>
        /\ currentFocus = -1
        /\ lastQuery = <<>>
        /\ debounceTimer = {}
        /\ timers = {}
        /\ thrown = FALSE
        /\ burst = NoBurst
        /\ lastEvent = NoEvent
        /\ middlewares = <<>>
        /\ nNavigate = 0
        /\ IF visits = 0
           THEN /\ routes = <<>>
                /\ routeHistory = <<>>
                /\ currentRoute = <<>>
                /\ currentParams = <<>>
                /\ pathname = << "" >>
                /\ navigation = NoNavigation
                /\ trace = NoTrace
                /\ navigated = <<>>
           ELSE /\ routes = <<homeRoute>>
                /\ routeHistory = homeRoutes(visits)
                /\ currentRoute = homeRoute
                /\ currentParams = <<>>
                /\ pathname = << "" >>
                /\ navigation = [path |-> << "" >>, matched |-> TRUE,
                                 route |-> homeRoute, params |-> <<>>,
                                 pushState |-> TRUE, stack |-> <<>>, next |-> 0]
                /\ trace = [ran |-> <<>>, called |-> <<>>, handled |-> 1,
                            before |-> [currentRoute |-> homeRoute,
                                        currentParams |-> <<>>,
                                        routeHistory |-> homeRoutes(visits - 1)]]
                /\ navigated = homeRoutes(visits)

NextRouter ==
    \/ \E route \in Routes : AddRoute(route)
    \/ Use
    \/ \E path \in Paths, pushState \in BOOLEAN : Navigate(path, pushState)
    \/ \E calls \in 0..MaxNextCalls : CallNext(calls)

SpecRouter == InitRouterPage /\ [][NextRouter]_vars

\* ------------------------------------------------------------------------
\* the last n entries of a list
lastOf(list, n) == IF Len(list) <= n THEN list ELSE SubSeq(list, Len(list) - n + 1, Len(list))

C36_HandlerAfterEveryMiddleware ==
    navigation.matched =>
        /\ isPrefix(trace.ran \o navigation.stack, middlewares)
        /\ trace.handled > 0 =>
              /\ navigation.stack = <<>>
              /\ \A m \in 1..Len(trace.called) : trace.called[m] >= 1
        /\ (\E m \in 1..Len(trace.called) : trace.called[m] = 0) =>
              /\ trace.handled = 0
              /\ theRouter = trace.before

\* ------------------------------------------------------------------------
\* ApiService.fetchWithRetry over ApiService.request
\* ------------------------------------------------------------------------
MaxRetries == 2

\* the retries and the delay a call is made with
Retries == -1..MaxRetries

Delays == {0, 500, 1000}

\* how a request settles: the status of a response, 0 when fetch rejects
Statuses == {200, 500, 0}

\* res.ok, for the responses of Statuses
ok(status) == status >= 200 /\ status <= 299

\* request(endpoint, options) of attempt i: the response it returns, or the
\* ApiError it throws ('HTTP <status>' when !res.ok, 'Fetch failed' with
\* status 0 when fetch rejects)
request(i, status) ==
    IF ok(status) THEN [returns |-> TRUE, attempt |-> i, status |-> status]
    ELSE [returns |-> FALSE, attempt |-> i, status |-> status]

\* a delay that does not grow
retryDelayFixed(delay, i) == delay

\* delay * (2 ** i)
retryDelay(delay, i) == delay * (2 ^ i)

\* fetchWithRetry(endpoint, options, retries, delay) up to its first
\* await: the request of i = 0 is under way, or, the loop having nothing
\* to run, error is thrown as it is
FetchWithRetry(retries, delay) ==
    /\ retry.at \in {"idle", "returned", "thrown"}
    /\ retry' = [at |-> IF 0 <= retries THEN "request" ELSE "thrown",
                 retries |-> retries, delay |-> delay, i |-> 0,
                 error |-> "undefined", result |-> "undefined"]
    /\ attempts' = <<>>
    /\ waits' = <<>>
    /\ UNCHANGED <<quoteVars, routerVars, modelVars, lastCall, uiVars>>

\* the request of attempt i settles: return of the response, or catch,
\* error = err, and either the setTimeout of the delay or, after the last
\* attempt, throw error
RequestSettles(status) ==
    LET settled == request(retry.i, status)
    IN /\ retry.at = "request"
       /\ attempts' = Append(attempts, settled)
       /\ IF settled.returns
          THEN /\ retry' = [retry EXCEPT !.at = "returned", !.result = settled]
               /\ UNCHANGED waits
          ELSE IF retry.i < retry.retries
          THEN /\ retry' = [retry EXCEPT !.at = "wait", !.error = settled]
               /\ waits' = Append(waits, retryDelay(retry.delay, retry.i))
          ELSE /\ retry' = [retry EXCEPT !.at = "thrown", !.error = settled,
                                         !.i = @ + 1]
               /\ UNCHANGED waits
       /\ UNCHANGED <<quoteVars, routerVars, modelVars, lastCall, uiVars>>

\* the timer of the delay fires: i++ and the next request
DelayElapses ==
    /\ retry.at = "wait"
    /\ retry' = [retry EXCEPT !.at = "request", !.i = @ + 1]
    /\ UNCHANGED <<attempts, waits>>
    /\ UNCHANGED <<quoteVars, routerVars, modelVars, lastCall, uiVars>>

\* a page on which no call has been made
InitApiPage == InitQuoteGenerator

NextApi ==
    \/ \E retries \in Retries, delay \in Delays : FetchWithRetry(retries, delay)
    \/ \E status \in Statuses : RequestSettles(status)
    \/ DelayElapses

SpecApi == InitApiPage /\ [][NextApi]_vars

\* every fetch settles and every timer fires
SpecApiFair ==
    /\ SpecApi
    /\ WF_vars(\E status \in Statuses : RequestSettles(status))
    /\ WF_vars(DelayElapses)

\* ------------------------------------------------------------------------
\* the attempts made are all failures but, at most, the last
failedButLast ==
    \A k \in 1..(Len(attempts) - 1) : ~attempts[k].returns

\* the delays waited so far are delay * 2^i for i = 0, 1, ... in order,
\* one after each failed attempt that another attempt follows
waitsDouble ==
    /\ Len(waits) = IF retry.at \in {"request", "wait"} THEN retry.i + (IF retry.at = "wait" THEN 1 ELSE 0)
                    ELSE IF attempts = <<>> THEN 0 ELSE Len(attempts) - 1
    /\ \A k \in 1..Len(waits) : waits[k] = retry.delay * (2 ^ (k - 1))

\* C37: a call of fetchWithRetry makes at most retries + 1 requests, one
\* after the other; it returns the first response that is ok and requests
\* nothing more; it waits delay * 2^i between the failed attempt i and the
\* next; it throws only after retries + 1 failed attempts, and what it
\* throws is the error of the last; and every call returns or throws.
C37_RetryTerminates ==
    /\ [](/\ Len(attempts) <= retry.retries + 1
          /\ \A k \in 1..Len(attempts) : attempts[k].attempt = k - 1
          /\ failedButLast
          /\ waitsDouble
          /\ retry.at = "returned" =>
                /\ attempts[Len(attempts)].returns
                /\ retry.result = attempts[Len(attempts)]
          /\ retry.at = "thrown" =>
                /\ Len(attempts) = retry.retries + 1
                /\ \A k \in 1..Len(attempts) : ~attempts[k].returns
                /\ attempts # <<>> => retry.error = attempts[Len(attempts)])
    /\ (retry.at \in {"request", "wait"}) ~> (retry.at \in {"returned", "thrown"})

\* a call with retries 2 and delay 500 has thrown the 'Fetch failed' of
\* its third attempt, after an HTTP 500 and waits of 500 and 1000
C37_Witness ==
    /\ retry.at = "thrown" /\ retry.retries = 2 /\ retry.delay = 500
    /\ Len(attempts) = 3
    /\ attempts[1].status = 500
    /\ waits = <<500, 1000>>
    /\ retry.error = [returns |-> FALSE, attempt |-> 2, status |-> 0]

====
